---- MODULE Spec2Model ----
(***************************************************************************)
(* Container session orchestrator of Pilot: the session registry           *)
(* (SessionStore), the container lifecycle manager (lib/docker), the       *)
(* repoSetup tool and the cleanup endpoints.                               *)
(*                                                                         *)
(* The runtime is single-threaded and cooperative: an action of this model *)
(* is the code that runs between two awaits of one async flow.  An action  *)
(* named XDone(s) resumes the flow after the awaited call X has settled,   *)
(* handles its outcome, and runs up to (and including the synchronous      *)
(* prefix of) the next awaited call.                                       *)
(*                                                                         *)
(* Time is counted in ticks of one hour.  Data that no decision depends on *)
(* (repoUrl, repoName, framework name, createdAt, log lines) is left out   *)
(* of the records.                                                         *)
(*                                                                         *)
(* Three specifications share the state and the actions:                   *)
(*   Spec       two concurrent repoSetup calls, DELETE session cleanup and *)
(*              the orphan reaper, all within one hour;                    *)
(*   SweepSpec  two concurrent repoSetup calls, status polling, the clock  *)
(*              and the two reclamation sweeps;                            *)
(*   PortSpec   the port scan of repoSetup on every registry that holds up *)
(*              to two sessions.                                           *)
(***************************************************************************)
EXTENDS Integers, Sequences, FiniteSets, TLC

\* ---------------------------------------------------------------- bounds
SessionIds == {"s1", "s2", "s3"}    \* the randomUUID()s of repoSetup calls
Concurrent == {"s1", "s2"}          \* the calls that run concurrently
MaxTime == 2                    \* the clock stops after this many ticks

\* ------------------------------------------------------ program constants
PortFloor == 3001               \* let hostPort = 3001
maxAttempts == 30               \* const maxAttempts = 30
MaxInactivity == 1              \* maxInactivityMs = 60 * 60 * 1000 (one tick)

NoSession == [absent |-> TRUE]  \* Map.get() returning undefined
NoPort == 0                     \* previewPort === undefined

StatusCodes == {200, 403, 404, 405, 500}
\* what one fetch() of the readiness loop does: it throws, or answers
FetchThrows == [threw |-> TRUE]
Response(status) == [threw |-> FALSE, status |-> status]
Outcomes == {FetchThrows} \cup {Response(c) : c \in StatusCodes}

VARIABLES
  sessions,         \* SessionStore.sessions : sessionId -> SessionData
  containerCache,   \* lib/docker containerCache (its key set)
  runtime,          \* state of container pilot-session-<id> in Docker
  setup,            \* locals and position of each repoSetup call
  result,           \* value returned by each repoSetup call
  now,              \* Date.now()
  delReq,           \* position of the DELETE /api/session/<id>/cleanup flow
  staleReq,         \* position of the POST stale-cleanup flow, per swept id
  orphan,           \* cleanupOrphanedContainers: the listed containers to go
  statusLog,        \* history: the buildStatus values written to each record
  swept,            \* history: ids removed by cleanupStaleSessions
  destroyInvoked,   \* history: swept ids destroyContainer was called with
  staleLog,         \* history: per id swept by POST stale cleanup, what the
                    \* record said and whether cleanupInjection was called
  executions,       \* ProgressStore.executions : id -> ProgressExecution
  inputHashToExecutionId,   \* ProgressStore.inputHashToExecutionId
  timers,           \* the pending setTimeout callbacks of ProgressStore.create
  minute,           \* the clock of the progress store
  run,              \* locals and position of each experimentCodeUpdate call
  stream,           \* the consumers of progress messages
  sandbox,          \* the files of one container that the picker injection touches
  trail,            \* history: the injectPicker / cleanupInjection calls made
  reply,            \* what the last direct call of a lib/docker or registry
                    \* function gave its caller
  detection         \* the last detectBuildConfig call: what it read and returned

orchVars == <<sessions, containerCache, runtime, setup, result, now, delReq,
              staleReq, orphan, statusLog, swept, destroyInvoked, staleLog>>

progressVars == <<executions, inputHashToExecutionId, timers, minute, run, stream>>

\* the state outside the session orchestrator
injectionVars == <<sandbox, trail>>

managerVars == <<reply, detection>>

otherVars == <<progressVars, injectionVars, managerVars>>

vars == <<orchVars, otherVars>>

\* ------------------------------------------------------- SessionStore
\* {...session, ...updates}
Merge(r, u) ==
  [f \in (DOMAIN r) \cup (DOMAIN u) |-> IF f \in DOMAIN u THEN u[f] ELSE r[f]]

\* variant: a session created with previewReady already set
createSessionReady(reg, s, t) ==
  [reg EXCEPT ![s] = [sessionId |-> s, containerId |-> s,
                      buildStatus |-> "idle", previewReady |-> TRUE,
                      previewPort |-> NoPort, lastActivity |-> t]]

createSession(reg, s, t) ==
  [reg EXCEPT ![s] = [sessionId |-> s, containerId |-> s,
                      buildStatus |-> "idle", previewReady |-> FALSE,
                      previewPort |-> NoPort, lastActivity |-> t]]

\* variant: an update of a missing record stores the updates as a new record
updateSessionUpsert(reg, s, u, t) ==
  [reg EXCEPT ![s] = Merge(Merge(IF @ = NoSession THEN createSession(reg, s, t)[s]
                                 ELSE @, u),
                           [lastActivity |-> t])]

updateSession(reg, s, u, t) ==
  IF reg[s] = NoSession THEN reg
  ELSE [reg EXCEPT ![s] = Merge(Merge(@, u), [lastActivity |-> t])]

getSession(reg, s, t) ==
  IF reg[s] = NoSession THEN reg
  ELSE [reg EXCEPT ![s] = Merge(@, [lastActivity |-> t])]

deleteSession(reg, s) == [reg EXCEPT ![s] = NoSession]

\* session?.pickerInjected: false without a record or without the field
pickerInjected(rec) == "pickerInjected" \in DOMAIN rec /\ rec.pickerInjected

getAllSessions(reg) == {reg[s] : s \in {x \in SessionIds : reg[x] # NoSession}}

\* variant: a session is stale as soon as its inactivity reaches the maximum
staleAtMaximum(reg, t, max) ==
  {s \in SessionIds : reg[s] # NoSession /\ t - reg[s].lastActivity >= max}

\* the ids cleanupStaleSessions(maxInactivityMs) collects and returns at time t
staleSessionIds(reg, t, max) ==
  {s \in SessionIds : reg[s] # NoSession /\ t - reg[s].lastActivity > max}

\* variant: the stale ids are collected and returned but not deleted
cleanupStaleSessionsKeep(reg, t, max) == reg

\* the registry after cleanupStaleSessions(maxInactivityMs): deleteSession for
\* each collected id
cleanupStaleSessionsOlder(reg, t, max) ==
  [s \in SessionIds |->
     IF s \in staleSessionIds(reg, t, max) THEN NoSession ELSE reg[s]]

\* cleanupStaleSessions() with the default maximum, as every caller calls it
StaleIds(reg, t) == staleSessionIds(reg, t, MaxInactivity)

cleanupStaleSessions(reg, t) == cleanupStaleSessionsOlder(reg, t, MaxInactivity)

\* history of the buildStatus values written to the record of s, kept while
\* the record is in the registry: reg is the registry after a write
Logged(log, reg, s) ==
  IF reg[s] = NoSession THEN log
  ELSE [log EXCEPT ![s] = Append(@, reg[s].buildStatus)]

Forget(log, ids) == [s \in SessionIds |-> IF s \in ids THEN << >> ELSE log[s]]

\* -------------------------------------------------------- repoSetup
usedPorts(reg) ==
  {r.previewPort : r \in {x \in getAllSessions(reg) : x.previewPort # NoPort}}

\* variant: an if in place of the while
ScanOnce(hostPort, used) ==
  IF hostPort \in used THEN hostPort + 1 ELSE hostPort

\* while (usedPorts.includes(hostPort)) hostPort++
RECURSIVE ScanFrom(_, _)
ScanFrom(hostPort, used) ==
  IF hostPort \in used THEN ScanFrom(hostPort + 1, used) ELSE hostPort

AllocatePort(used) == ScanFrom(PortFloor, used)

checkOk(status) == status >= 200 /\ status <= 299

ProbeAccepts(status) == checkOk(status) \/ status = 404 \/ status = 405

\* the readiness loop, run on the outcomes of the successive fetch() calls
RECURSIVE ProbeLoop(_, _, _, _)
ProbeLoop(i, serverReady, responded, outcomes) ==
  IF i < maxAttempts /\ ~serverReady
  THEN IF outcomes[i + 1].threw
       THEN ProbeLoop(i + 1, serverReady, responded, outcomes)
       ELSE ProbeLoop(i + 1, ProbeAccepts(outcomes[i + 1].status), TRUE, outcomes)
  ELSE [serverReady |-> serverReady, responded |-> responded,
        exhausted |-> (i = maxAttempts)]

\* outcome sequences: r on the attempts before the k-th, a from the k-th on
ProbeInputs ==
  {[j \in 1..maxAttempts |-> IF j < k THEN r ELSE a] :
     k \in 1..maxAttempts, r \in Outcomes, a \in Outcomes}

ProbeResults == {ProbeLoop(0, FALSE, FALSE, o) : o \in ProbeInputs}

NoProbe == [serverReady |-> FALSE, responded |-> FALSE, exhausted |-> FALSE]

InitSetup ==
  [pc |-> "start", hostPort |-> NoPort, issued |-> FALSE,
   hasBuild |-> FALSE, injectOk |-> FALSE, soft |-> FALSE,
   launched |-> FALSE, probe |-> NoProbe]

\* what a repoSetup call gave its caller: nothing yet, a returned value, or
\* an exception
NoResult == [kind |-> "pending", success |-> FALSE, error |-> "none"]

\* ------------------------------------------------------- ProgressStore
Runs == {"r1", "r2"}            \* the experimentCodeUpdate calls
Callbacks == {"c1"}             \* callbacks given to subscribe(id, callback)
Requests == {"c2"}              \* GET requests of the progress stream
Streams == Callbacks \cup Requests
Hashes == {"h1", "h2"}          \* sha256 of the inputs of a call
\* the inputs of the calls: those of r2 equal those of r1 or differ from them
InputHashes(r) == IF r = "r1" THEN {"h1"} ELSE Hashes
MaxSteps == 2                   \* onStepFinish calls of one sub-agent run
MaxClock == 6                   \* the progress clock stops after this many minutes

Ttl == 5                        \* setTimeout(..., 5 * 60 * 1000), in minutes

NoId == "null"                  \* no sessionId provided; Map.get() || null
NoExecution == [absent |-> TRUE]

\* crypto.randomUUID() of a call
uuid(r) == IF r = "r1" THEN "u1" ELSE "u2"

\* the ids an execution can have: a fresh uuid or the provided sessionId
ExecIds == {uuid(r) : r \in Runs} \cup {"s1"}

Stages == {"Cloning repository...", "Analyzing codebase..."}

ProgressMessage(message, type) == [message |-> message, type |-> type]

CompletionMessage(success) ==
  ProgressMessage(IF success THEN "Completed successfully" ELSE "Completed with errors",
                  IF success THEN "success" ELSE "error")

Terminal == {CompletionMessage(TRUE), CompletionMessage(FALSE)}

\* executions.set(id, {...}); owner tells the objects set under one id apart
create(ex, id, owner) ==
  [ex EXCEPT ![id] = [owner |-> owner, messages |-> << >>, completed |-> FALSE,
                      subscribers |-> {}]]

\* variant: no comparison with the last message
IsDuplicateNever(messages, m) == FALSE

\* lastMessage && lastMessage.message === message && lastMessage.type === type
IsDuplicate(messages, m) ==
  /\ messages # << >>
  /\ messages[Len(messages)].message = m.message
  /\ messages[Len(messages)].type = m.type

update(ex, id, message, type) ==
  IF ex[id] = NoExecution THEN ex
  ELSE IF IsDuplicate(ex[id].messages, ProgressMessage(message, type)) THEN ex
  ELSE [ex EXCEPT ![id].messages = Append(@, ProgressMessage(message, type))]

complete(ex, id, success) ==
  IF ex[id] = NoExecution THEN ex
  ELSE IF IsDuplicate(ex[id].messages, CompletionMessage(success))
  THEN [ex EXCEPT ![id].completed = TRUE]
  ELSE [ex EXCEPT ![id].completed = TRUE,
                  ![id].messages = Append(@, CompletionMessage(success))]

getMessages(ex, id) == IF ex[id] = NoExecution THEN << >> ELSE ex[id].messages

isCompleted(ex, id) == IF ex[id] = NoExecution THEN FALSE ELSE ex[id].completed

exists(ex, id) == ex[id] # NoExecution

getExecutionIdByInputHash(map, h) == map[h]

\* the messages a call pushed on the execution under id: ex before, ex2 after
Pushed(ex, ex2, id) ==
  IF ex[id] = NoExecution \/ ex2[id] = NoExecution THEN << >>
  ELSE SubSeq(ex2[id].messages, Len(ex[id].messages) + 1, Len(ex2[id].messages))

\* execution.subscribers.forEach((callback) => callback(progressMessage))
Notify(st, ex, ex2, id) ==
  [c \in Streams |->
     IF ex2[id] # NoExecution /\ c \in ex2[id].subscribers
     THEN [st[c] EXCEPT !.received = @ \o Pushed(ex, ex2, id)]
     ELSE st[c]]

InitRun ==
  [pc |-> "start", executionId |-> NoId, inputHash |-> NoId, createdAt |-> 0,
   steps |-> 0]

InitStream ==
  [state |-> "idle", id |-> NoId, owner |-> NoId, replayed |-> 0,
   received |-> << >>, closing |-> FALSE]

InitProgress ==
  /\ executions = [id \in ExecIds |-> NoExecution]
  /\ inputHashToExecutionId = [h \in Hashes |-> NoId]
  /\ timers = {}
  /\ minute = 0
  /\ run = [r \in Runs |-> InitRun]
  /\ stream = [c \in Streams |-> InitStream]

\* ------------------------------------------------ DirectPickerInjection
MaxOps == 2                     \* injectPicker / cleanupInjection calls in a row

NoFile == [absent |-> TRUE]             \* no such file in the container
Unparsable == [garbage |-> TRUE]        \* a manifest JSON.parse() throws on

\* one candidate of each list of entry points, under /workspace/repo
LayoutPath == "app/layout.tsx"
DocumentPath == "pages/_document.tsx"
HtmlPath == "public/index.html"
EntryPaths == {LayoutPath, DocumentPath, HtmlPath}

Frameworks == {"Next.js", "Vite", "unknown"}

\* A file content, by what the injection looks at: the anchor it offers for
\* the script tag, whether it holds PICKER_MARKER, the script tag inserted,
\* and its bytes (valid UTF-8, not valid UTF-8, or with U+FFFD replacements).
Content(anchor, marked, bytes) ==
  [anchor |-> anchor, marked |-> marked, tag |-> "none", bytes |-> bytes]

\* the contents a repository can have at each entry point
Originals(path) ==
  IF path = LayoutPath
  THEN {Content(a, FALSE, "utf8") : a \in {"<head>", "<html", "none"}}
       \cup {Content("<head>", TRUE, "utf8")}
  ELSE IF path = DocumentPath
  THEN {Content(a, FALSE, "utf8") : a \in {"<Head>", "none"}}
  ELSE {Content(a, FALSE, "utf8") : a \in {"</head>", "<body>", "none"}}
       \cup {Content("</head>", FALSE, "invalid")}

\* readFile: Buffer.concat(chunks).toString('utf-8')
Decoded(c) == [c EXCEPT !.bytes = IF @ = "utf8" THEN "utf8" ELSE "replaced"]

NoInsertionPoint == [thrown |-> TRUE]

\* the content written back over an entry point, from the content read
Modified(path, c) ==
  IF path = LayoutPath
  THEN IF c.anchor = "<head>" THEN [c EXCEPT !.tag = "after <head>", !.marked = TRUE]
       ELSE IF c.anchor = "<html" THEN [c EXCEPT !.tag = "new <head>", !.marked = TRUE]
       ELSE NoInsertionPoint
  ELSE IF path = DocumentPath
  THEN IF c.anchor = "<Head>" THEN [c EXCEPT !.tag = "after <Head>", !.marked = TRUE]
       ELSE c
  ELSE IF c.anchor = "</head>" THEN [c EXCEPT !.tag = "before </head>", !.marked = TRUE]
       ELSE IF c.anchor = "<body>" THEN [c EXCEPT !.tag = "after <body>", !.marked = TRUE]
       ELSE [c EXCEPT !.tag = "appended", !.marked = TRUE]

\* what a call can meet: no failure, or a throw of the named helper call
InjectFaults == {"none", "copy", "backup", "modify", "track"}

\* One round of the loops over the candidate paths.  outcome: "next" (the
\* catch block: continue), "already" (marker found: return []), "done"
TryPath(sb, path, fault) ==
  IF sb.repo[path] = NoFile THEN [sandbox |-> sb, outcome |-> "next"]
  ELSE IF Decoded(sb.repo[path]).marked THEN [sandbox |-> sb, outcome |-> "already"]
  ELSE IF fault = "backup" THEN [sandbox |-> sb, outcome |-> "next"]
  ELSE LET sb1 == [sb EXCEPT !.backup[path] = Decoded(sb.repo[path])]
           m == Modified(path, Decoded(sb.repo[path]))
       IN IF m = NoInsertionPoint \/ fault = "modify"
          THEN [sandbox |-> sb1, outcome |-> "next"]
          ELSE [sandbox |-> [sb1 EXCEPT !.repo[path] = m], outcome |-> "done"]

\* the value of a path's round as the value of the function that loops
Returned(t, path) ==
  [sandbox |-> t.sandbox, thrown |-> FALSE,
   modifiedFiles |-> IF t.outcome = "done" THEN <<path>> ELSE << >>]

injectHtmlTemplate(sb, fault) ==
  LET t == TryPath(sb, HtmlPath, fault)
  IN IF t.outcome = "next"
     THEN [sandbox |-> t.sandbox, thrown |-> TRUE, modifiedFiles |-> << >>]
     ELSE Returned(t, HtmlPath)

injectNextJs(sb, fault) ==
  LET a == TryPath(sb, LayoutPath, fault)
      d == TryPath(a.sandbox, DocumentPath, fault)
  IN IF a.outcome # "next" THEN Returned(a, LayoutPath)
     ELSE IF d.outcome # "next" THEN Returned(d, DocumentPath)
     ELSE injectHtmlTemplate(d.sandbox, fault)

modifyEntryPoint(sb, framework, fault) ==
  IF framework = "Next.js" THEN injectNextJs(sb, fault)
  ELSE injectHtmlTemplate(sb, fault)

Manifest(files) == [files |-> files]

\* variant: an empty list of modified files is not written
trackModificationsIfAny(sb, files, fault) ==
  IF fault = "track" \/ files = << >> THEN sb ELSE [sb EXCEPT !.manifest = Manifest(files)]

\* writeFile of the manifest; a failure is logged
trackModifications(sb, files, fault) ==
  IF fault = "track" THEN sb ELSE [sb EXCEPT !.manifest = Manifest(files)]

InjectionResult(sb, success, files) ==
  [sandbox |-> sb, success |-> success, filesModified |-> files]

\* injectPicker: copyPickerScript, modifyEntryPoint, trackModifications; any
\* throw of the first two ends in {success: false}.  Without a cached handle
\* the first helper call throws.
injectPicker(sb, framework, fault) ==
  IF ~sb.cached THEN InjectionResult(sb, FALSE, << >>)
  ELSE IF fault = "copy" THEN InjectionResult([sb EXCEPT !.picker = TRUE], FALSE, << >>)
  ELSE LET m == modifyEntryPoint([sb EXCEPT !.picker = TRUE], framework, fault)
       IN IF m.thrown THEN InjectionResult(m.sandbox, FALSE, << >>)
          ELSE InjectionResult(trackModifications(m.sandbox, m.modifiedFiles, fault),
                               TRUE, m.modifiedFiles)

\* the helper calls of cleanupInjection that can throw: readFile of the
\* manifest, the commands restoring the first recorded file, rm of the picker
\* directory, rm of the manifest
CleanupSites == {"manifest", "restore", "picker", "tracking"}

\* test -f backup; if it exits 0, mv backup file
RestoreOne(sb, file) ==
  IF sb.backup[file] # NoFile
  THEN [sb EXCEPT !.repo[file] = sb.backup[file], !.backup[file] = NoFile]
  ELSE sb

RestoreThrows(sb, i, faults) == ~sb.cached \/ (i = 1 /\ "restore" \in faults)

RECURSIVE RestoreFrom(_, _, _, _)

\* variant: no try block around the restoration of one file
RestoreRethrow(sb, files, i, faults) == [sandbox |-> sb, thrown |-> TRUE]

\* the catch block inside the loop: warn, go on with the next file
RestoreCatch(sb, files, i, faults) == RestoreFrom(sb, files, i + 1, faults)

\* for (const file of tracking.files) { try { ... } catch { ... } }
RestoreFrom(sb, files, i, faults) ==
  IF i > Len(files) THEN [sandbox |-> sb, thrown |-> FALSE]
  ELSE IF RestoreThrows(sb, i, faults) THEN RestoreCatch(sb, files, i, faults)
  ELSE RestoreFrom(RestoreOne(sb, files[i]), files, i + 1, faults)

\* readFile + JSON.parse of the manifest, null when either throws
Tracking(sb, faults) ==
  IF ~sb.cached \/ "manifest" \in faults \/ sb.manifest \in {NoFile, Unparsable}
  THEN NoFile ELSE sb.manifest

\* execCommand(rm -rf public/picker).catch(...)
RemovePicker(sb, faults) ==
  IF ~sb.cached \/ "picker" \in faults THEN sb ELSE [sb EXCEPT !.picker = FALSE]

\* execCommand(rm -f .pilot-modifications.json).catch(...)
RemoveTracking(sb, faults) ==
  IF ~sb.cached \/ "tracking" \in faults THEN sb ELSE [sb EXCEPT !.manifest = NoFile]

\* cleanupInjection: a throw that reaches the outer catch block skips the
\* steps after it and is logged there
cleanupInjection(sb, faults) ==
  LET tracking == Tracking(sb, faults)
      r == IF tracking = NoFile THEN [sandbox |-> sb, thrown |-> FALSE]
           ELSE RestoreFrom(sb, tracking.files, 1, faults)
  IN IF r.thrown THEN [sandbox |-> r.sandbox, thrown |-> FALSE]
     ELSE [sandbox |-> RemoveTracking(RemovePicker(r.sandbox, faults), faults),
           thrown |-> FALSE]

\* a container right after the clone: no backup, no picker asset, no manifest
Pristine(repo, cached) ==
  [cached |-> cached, repo |-> repo,
   backup |-> [p \in EntryPaths |-> NoFile], picker |-> FALSE, manifest |-> NoFile]

NoTrail(sb) == [ops |-> << >>, original |-> sb]

InitSandbox ==
  /\ sandbox = Pristine([p \in EntryPaths |-> NoFile], FALSE)
  /\ trail = NoTrail(sandbox)

\* ------------------------------------------------------- build detector
\* a script or command line is the sequence of its words; << >> is the empty
\* string, and stands for a script that is not in the manifest (both are
\* falsy where the detector tests scripts[name])
NoScript == << >>

\* the script strings tried: without a port flag, and with --port 4000 / 5000
ScriptStrings ==
  {<<"next", "dev">>, <<"vite", "--port", "4000">>, <<"vite", "--port", "5000">>}

devScriptNames == <<"dev", "start", "serve", "preview">>

ScriptNames == {"dev", "start", "serve", "preview", "build"}

\* packageJson.scripts is undefined
NoScripts == [absent |-> TRUE]

\* the scripts objects tried
ScriptTables ==
  {NoScripts} \cup
  {sc \in [ScriptNames -> ScriptStrings \cup {NoScript}] :
     sc["build"] \in {NoScript, <<"next", "dev">>}}

\* the merged keys of dependencies and devDependencies tried
DependencySets ==
  {{}, {"next"}, {"vite"}, {"next", "vite"}, {"react-scripts"},
   {"@angular/core"}, {"vue"}, {"vite", "vue"}, {"lodash"}}

\* what readFile and JSON.parse give detectBuildConfig; fault "read": readFile
\* throws, "parse": JSON.parse throws, "null": the text parses to null
ManifestReads ==
  {[fault |-> f, dependencies |-> {}, scripts |-> NoScripts] :
     f \in {"read", "parse", "null"}} \cup
  {[fault |-> "none", dependencies |-> d, scripts |-> sc] :
     d \in DependencySets, sc \in ScriptTables}

\* the outcomes of the two test -f calls of detectPackageManager
ProbeOutcomes == {"exit0", "exit1", "throws"}

Probes == [pnpm : ProbeOutcomes, yarn : ProbeOutcomes]

detectFramework(allDeps) ==
  IF "next" \in allDeps THEN "Next.js"
  ELSE IF "vite" \in allDeps THEN "Vite"
  ELSE IF "remix" \in allDeps \/ "@remix-run/react" \in allDeps THEN "Remix"
  ELSE IF "react-scripts" \in allDeps THEN "Create React App"
  ELSE IF "nuxt" \in allDeps THEN "Nuxt"
  ELSE IF "gatsby" \in allDeps THEN "Gatsby"
  ELSE IF "@angular/core" \in allDeps THEN "Angular"
  ELSE IF "vue" \in allDeps THEN "Vue"
  ELSE IF "svelte" \in allDeps THEN "Svelte"
  ELSE "Unknown"

\* variant: a throw of a lock-file probe leaves detectPackageManager
detectPackageManagerRethrow(probe) ==
  IF probe.pnpm = "throws" THEN "throws"
  ELSE IF probe.pnpm = "exit0" THEN "pnpm"
  ELSE IF probe.yarn = "throws" THEN "throws"
  ELSE IF probe.yarn = "exit0" THEN "yarn"
  ELSE "npm"

\* the yarn probe is made only after the pnpm probe exited non-zero; a throw
\* of either is caught and gives npm
detectPackageManager(probe) ==
  IF probe.pnpm = "throws" THEN "npm"
  ELSE IF probe.pnpm = "exit0" THEN "pnpm"
  ELSE IF probe.yarn = "throws" THEN "npm"
  ELSE IF probe.yarn = "exit0" THEN "yarn"
  ELSE "npm"

\* parseInt(digits, 10) on the digit strings tried
parseInt == ("4000" :> 4000) @@ ("5000" :> 5000)

\* devScript.match(/--port[=\s]+(\d+)/): the first --port followed by digits,
\* as the parsed number; NoPort without a match
portMatch(script) ==
  LET hits == {i \in 1..(Len(script) - 1) :
                 script[i] = "--port" /\ script[i + 1] \in DOMAIN parseInt}
  IN  IF hits = {} THEN NoPort
      ELSE parseInt[script[(CHOOSE i \in hits : \A j \in hits : i <= j) + 1]]

FrameworkPort(framework) ==
  CASE framework = "Next.js" -> 3000
    [] framework = "Vite" -> 5173
    [] framework = "Create React App" -> 3000
    [] framework = "Remix" -> 3000
    [] framework = "Angular" -> 4200
    [] framework = "Vue" -> 8080
    [] OTHER -> 3000

\* scripts.dev || scripts.start || ''
devScript(scripts) ==
  IF scripts["dev"] # NoScript THEN scripts["dev"] ELSE scripts["start"]

detectDefaultPort(framework, scripts) ==
  IF scripts # NoScripts /\ portMatch(devScript(scripts)) # NoPort
  THEN portMatch(devScript(scripts))
  ELSE FrameworkPort(framework)

\* the first of devScriptNames, from position i, that scripts defines
RECURSIVE FirstScript(_, _)
FirstScript(scripts, i) ==
  IF i > Len(devScriptNames) THEN NoScript
  ELSE IF scripts[devScriptNames[i]] # NoScript THEN <<devScriptNames[i]>>
  ELSE FirstScript(scripts, i + 1)

FrameworkScript(framework) ==
  IF framework \in {"Create React App", "Vue", "Angular"} THEN <<"start">>
  ELSE <<"dev">>

\* the words detectDevCommand returns: without a scripts object it returns
\* the whole command 'npm run dev', otherwise a script name
detectDevCommand(framework, scripts) ==
  IF scripts = NoScripts THEN <<"npm", "run", "dev">>
  ELSE IF FirstScript(scripts, 1) # NoScript THEN FirstScript(scripts, 1)
  ELSE FrameworkScript(framework)

detectBuildCommand(scripts) ==
  IF scripts = NoScripts THEN NoScript
  ELSE IF scripts["build"] # NoScript THEN <<"build">>
  ELSE NoScript

\* the configuration returned by the catch block of detectBuildConfig
DefaultConfig ==
  [framework |-> "Unknown", packageManager |-> "npm",
   installCommand |-> <<"npm", "install">>, buildCommand |-> NoScript,
   devCommand |-> <<"npm", "run", "dev">>, defaultPort |-> 3000]

\* the configuration built in the try block: `${packageManager} run ${name}`
BuiltConfig(framework, packageManager, scripts) ==
  [framework |-> framework, packageManager |-> packageManager,
   installCommand |-> <<packageManager, "install">>,
   buildCommand |-> IF detectBuildCommand(scripts) = NoScript THEN NoScript
                    ELSE <<packageManager, "run">> \o detectBuildCommand(scripts),
   devCommand |-> <<packageManager, "run">> \o detectDevCommand(framework, scripts),
   defaultPort |-> detectDefaultPort(framework, scripts)]

\* detectBuildConfig: every throw inside the try block ends in the catch block
detectBuildConfig(read, probe) ==
  IF read.fault # "none" \/ detectPackageManager(probe) = "throws"
  THEN DefaultConfig
  ELSE BuiltConfig(detectFramework(read.dependencies),
                   detectPackageManager(probe), read.scripts)

\* no detectBuildConfig call is under way
NoDetection ==
  [called |-> FALSE,
   read |-> [fault |-> "read", dependencies |-> {}, scripts |-> NoScripts],
   probe |-> [pnpm |-> "throws", yarn |-> "throws"],
   outcome |-> "returned", config |-> DefaultConfig]

InitOrchestrator ==
  /\ sessions = [s \in SessionIds |-> NoSession]
  /\ containerCache = {}
  /\ runtime = [s \in SessionIds |-> "absent"]
  /\ setup = [s \in SessionIds |-> InitSetup]
  /\ result = [s \in SessionIds |-> NoResult]
  /\ now = 0
  /\ delReq = [s \in SessionIds |-> "none"]
  /\ staleReq = [s \in SessionIds |-> "none"]
  /\ orphan = {}
  /\ statusLog = [s \in SessionIds |-> <<>>]
  /\ swept = {}
  /\ destroyInvoked = {}
  /\ staleLog = {}

\* found: a handle (or a record) existed for the id; issued: a call to the
\* container runtime was made; outcome: "returned", "notfound" (the error
\* 'No container found for session'), or "error" (any other throw)
Reply(op, id, found, issued, outcome, cache) ==
  [op |-> op, id |-> id, found |-> found, issued |-> issued,
   outcome |-> outcome, cache |-> cache]

NoReply == Reply("none", "", FALSE, FALSE, "returned", {})

InitManager == reply = NoReply /\ detection = NoDetection

Init == InitOrchestrator /\ InitProgress /\ InitSandbox /\ InitManager

\* ------------------------------------------------ repoSetup.execute steps
\* the catch block: updateSession(failed), return {success: false, ...}
CatchResult(err) == [kind |-> "value", success |-> FALSE, error |-> err]

\* variant: the catch block resets the status
CatchUpdateReset == [buildStatus |-> "idle"]

CatchUpdate == [buildStatus |-> "failed"]

Catch(s, reg, log, err) ==
  LET reg2 == updateSession(reg, s, CatchUpdate, now) IN
  /\ sessions' = reg2
  /\ statusLog' = Logged(log, reg2, s)
  /\ result' = [result EXCEPT ![s] = CatchResult(err)]

\* variant: the handle is not looked up
IssueAlways(s, cache) == TRUE

\* an awaited helper is issued: it fails at once without a cached handle
Issue(s, cache) == s \in cache

\* lines 25-48: port scan, createContainer called
Start(s) ==
  /\ setup[s].pc = "start"
  /\ setup' = [setup EXCEPT ![s].pc = "create",
                            ![s].hostPort = AllocatePort(usedPorts(sessions))]
  /\ UNCHANGED <<sessions, containerCache, runtime, result, now, delReq,
                 staleReq, orphan, statusLog, swept, destroyInvoked, staleLog>>
  /\ UNCHANGED otherVars

\* host ports bound by running containers other than s
BoundPorts(s) ==
  {setup[t].hostPort : t \in {x \in SessionIds \ {s} : runtime[x] = "running"}}

CloningUpdate(s) == [buildStatus |-> "cloning", previewPort |-> setup[s].hostPort]

\* lines 48-67 with createContainer: the container runs, the session is
\* created and set to cloning, the clone command is issued
CreateDoneOk(s) ==
  /\ setup[s].pc = "create"
  /\ setup[s].hostPort \notin BoundPorts(s)
  /\ runtime' = [runtime EXCEPT ![s] = "running"]
  /\ containerCache' = containerCache \cup {s}
  /\ LET reg1 == createSession(sessions, s, now)
         reg2 == updateSession(reg1, s, CloningUpdate(s), now)
     IN /\ sessions' = reg2
        /\ statusLog' = Logged(Logged(statusLog, reg1, s), reg2, s)
  /\ setup' = [setup EXCEPT ![s].pc = "clone",
                            ![s].issued = Issue(s, containerCache')]
  /\ UNCHANGED <<result, now, delReq, staleReq, orphan, swept, destroyInvoked, staleLog>>
  /\ UNCHANGED otherVars

\* createContainer throws: the image build, create or start failed (left
\* absent or created), or the started container is not running (exited)
CreateDoneFail(s) ==
  /\ setup[s].pc = "create"
  /\ \E st \in {"absent", "created", "exited"} :
       runtime' = [runtime EXCEPT ![s] = st]
  /\ Catch(s, sessions, statusLog, "create")
  /\ setup' = [setup EXCEPT ![s].pc = "done", ![s].issued = FALSE]
  /\ UNCHANGED <<containerCache, now, delReq, staleReq, orphan, swept,
                 destroyInvoked, staleLog>>
  /\ UNCHANGED otherVars

\* outcomes of an awaited execCommand: exit code 0, non-zero, or a throw
ExecOutcomes(s) == IF setup[s].issued THEN {"zero", "nonzero", "throw"} ELSE {"throw"}

\* variant: the helper is awaited outside the try block
ThrownUncaught(s) ==
  /\ result' = [result EXCEPT ![s] = [kind |-> "exception", success |-> FALSE,
                                      error |-> "exec"]]
  /\ setup' = [setup EXCEPT ![s].pc = "done", ![s].issued = FALSE,
                            ![s].hasBuild = FALSE]
  /\ UNCHANGED <<sessions, statusLog>>

\* an awaited helper throws inside the try block
Thrown(s) ==
  /\ Catch(s, sessions, statusLog, "exec")
  /\ setup' = [setup EXCEPT ![s].pc = "done", ![s].issued = FALSE,
                            ![s].hasBuild = FALSE]

\* lines 63-84: clone result handled, cp issued
CloneDone(s) ==
  /\ setup[s].pc = "clone"
  /\ \E o \in ExecOutcomes(s) :
       \/ /\ o = "throw"
          /\ Thrown(s)
       \/ /\ o = "nonzero"
          /\ LET reg1 == updateSession(sessions, s, [buildStatus |-> "failed"], now)
             IN Catch(s, reg1, Logged(statusLog, reg1, s), "clone")
          /\ setup' = [setup EXCEPT ![s].pc = "done", ![s].issued = FALSE]
       \/ /\ o = "zero"
          /\ LET reg1 == updateSession(sessions, s, [buildStatus |-> "building"], now)
             IN /\ sessions' = reg1
                /\ statusLog' = Logged(statusLog, reg1, s)
          /\ setup' = [setup EXCEPT ![s].pc = "copy",
                                    ![s].issued = Issue(s, containerCache)]
          /\ UNCHANGED result
  /\ UNCHANGED <<containerCache, runtime, now, delReq, staleReq, orphan, swept,
                 destroyInvoked, staleLog>>
  /\ UNCHANGED otherVars

\* lines 84-86: cp done (exit code ignored), detectBuildConfig called
CopyDone(s) ==
  /\ setup[s].pc = "copy"
  /\ \E o \in ExecOutcomes(s) :
       \/ /\ o = "throw"
          /\ Thrown(s)
       \/ /\ o # "throw"
          /\ setup' = [setup EXCEPT ![s].pc = "detect",
                                    ![s].issued = Issue(s, containerCache)]
          /\ UNCHANGED <<sessions, statusLog, result>>
  /\ UNCHANGED <<containerCache, runtime, now, delReq, staleReq, orphan, swept,
                 destroyInvoked, staleLog>>
  /\ UNCHANGED otherVars

\* lines 86-100: detectBuildConfig never throws; without a handle it returns
\* the default configuration, which has no build command
DetectDone(s) ==
  /\ setup[s].pc = "detect"
  /\ \E hb \in (IF setup[s].issued THEN BOOLEAN ELSE {FALSE}) :
       setup' = [setup EXCEPT ![s].pc = "install", ![s].hasBuild = hb,
                              ![s].issued = Issue(s, containerCache)]
  /\ sessions' = updateSession(sessions, s, << >>, now)
  /\ UNCHANGED <<containerCache, runtime, result, now, delReq, staleReq, orphan,
                 statusLog, swept, destroyInvoked, staleLog>>
  /\ UNCHANGED otherVars

\* variant: a non-zero exit of the install command handled like the clone's
InstallDoneFatal(s) ==
  /\ setup[s].pc = "install"
  /\ \E o \in ExecOutcomes(s) :
       \/ /\ o = "throw"
          /\ Thrown(s)
       \/ /\ o = "nonzero"
          /\ LET reg1 == updateSession(sessions, s, [buildStatus |-> "failed"], now)
             IN Catch(s, reg1, Logged(statusLog, reg1, s), "install")
          /\ setup' = [setup EXCEPT ![s].pc = "done", ![s].issued = FALSE,
                                    ![s].hasBuild = FALSE, ![s].soft = TRUE]
       \/ /\ o = "zero"
          /\ setup' = [setup EXCEPT
                         ![s].pc = IF setup[s].hasBuild THEN "build" ELSE "inject",
                         ![s].hasBuild = FALSE,
                         ![s].issued = Issue(s, containerCache)]
          /\ UNCHANGED <<sessions, statusLog, result>>
  /\ UNCHANGED <<containerCache, runtime, now, delReq, staleReq, orphan, swept,
                 destroyInvoked, staleLog>>
  /\ UNCHANGED otherVars

\* lines 96-126: a non-zero exit of the install command is a warning
InstallDone(s) ==
  /\ setup[s].pc = "install"
  /\ \E o \in ExecOutcomes(s) :
       \/ /\ o = "throw"
          /\ Thrown(s)
       \/ /\ o # "throw"
          /\ setup' = [setup EXCEPT
                         ![s].pc = IF setup[s].hasBuild THEN "build" ELSE "inject",
                         ![s].hasBuild = FALSE,
                         ![s].soft = @ \/ (o = "nonzero"),
                         ![s].issued = Issue(s, containerCache)]
          /\ UNCHANGED <<sessions, statusLog, result>>
  /\ UNCHANGED <<containerCache, runtime, now, delReq, staleReq, orphan, swept,
                 destroyInvoked, staleLog>>
  /\ UNCHANGED otherVars

\* lines 107-126: a non-zero exit of the build command is a warning
BuildDone(s) ==
  /\ setup[s].pc = "build"
  /\ \E o \in ExecOutcomes(s) :
       \/ /\ o = "throw"
          /\ Thrown(s)
       \/ /\ o # "throw"
          /\ setup' = [setup EXCEPT ![s].pc = "inject",
                                    ![s].soft = @ \/ (o = "nonzero"),
                                    ![s].issued = Issue(s, containerCache)]
          /\ UNCHANGED <<sessions, statusLog, result>>
  /\ UNCHANGED <<containerCache, runtime, now, delReq, staleReq, orphan, swept,
                 destroyInvoked, staleLog>>
  /\ UNCHANGED otherVars

\* lines 126-148: injectPicker never throws; it fails without a handle
InjectDone(s) ==
  /\ setup[s].pc = "inject"
  /\ \E ok \in (IF setup[s].issued THEN BOOLEAN ELSE {FALSE}) :
       setup' = [setup EXCEPT ![s].pc = "launch", ![s].injectOk = ok,
                              ![s].soft = @ \/ ~ok,
                              ![s].issued = Issue(s, containerCache)]
  /\ UNCHANGED <<sessions, containerCache, runtime, result, now, delReq,
                 staleReq, orphan, statusLog, swept, destroyInvoked, staleLog>>
  /\ UNCHANGED otherVars

\* lines 148-151: the detached dev server is started (exit code ignored),
\* then the 5 s timer runs
LaunchDone(s) ==
  /\ setup[s].pc = "launch"
  /\ \E o \in ExecOutcomes(s) :
       \/ /\ o = "throw"
          /\ Thrown(s)
       \/ /\ o # "throw"
          /\ setup' = [setup EXCEPT ![s].pc = "probe", ![s].launched = TRUE]
          /\ UNCHANGED <<sessions, statusLog, result>>
  /\ UNCHANGED <<containerCache, runtime, now, delReq, staleReq, orphan, swept,
                 destroyInvoked, staleLog>>
  /\ UNCHANGED otherVars

RunningUpdate(s) ==
  [buildStatus |-> "running", previewReady |-> TRUE,
   previewPort |-> setup[s].hostPort, pickerInjected |-> setup[s].injectOk]

SuccessResult == [kind |-> "value", success |-> TRUE, error |-> "none"]

\* variant: the loop result is not looked at
ProbeVerdictReady(p) == "ready"

\* if (!serverReady) { updateSession(failed); throw ... }
ProbeVerdict(p) == IF ~p.serverReady THEN "timeout" ELSE "ready"

\* lines 153-231: the readiness loop and what follows it.  The loop touches
\* no shared state, so it is taken as one step on the outcomes of its fetches.
ProbeDone(s) ==
  /\ setup[s].pc = "probe"
  /\ \E p \in ProbeResults :
       /\ setup' = [setup EXCEPT ![s].pc = "done", ![s].issued = FALSE,
                                 ![s].probe = p]
       /\ IF ProbeVerdict(p) = "timeout"
          THEN LET reg1 == updateSession(sessions, s, [buildStatus |-> "failed"], now)
               IN Catch(s, reg1, Logged(statusLog, reg1, s), "timeout")
          ELSE LET reg1 == updateSession(sessions, s, RunningUpdate(s), now)
               IN /\ sessions' = reg1
                  /\ statusLog' = Logged(statusLog, reg1, s)
                  /\ result' = [result EXCEPT ![s] = SuccessResult]
  /\ UNCHANGED <<containerCache, runtime, now, delReq, staleReq, orphan, swept,
                 destroyInvoked, staleLog>>
  /\ UNCHANGED otherVars

\* ------------------------------------------------------- environment
\* GET /api/session/<id>/status (and the inject-picker routes): getSession
StatusQuery(s) ==
  /\ sessions[s] # NoSession
  /\ sessions' = getSession(sessions, s, now)
  /\ sessions' # sessions
  /\ UNCHANGED <<containerCache, runtime, setup, result, now, delReq, staleReq,
                 orphan, statusLog, swept, destroyInvoked, staleLog>>
  /\ UNCHANGED otherVars

Tick ==
  /\ now < MaxTime
  /\ now' = now + 1
  /\ UNCHANGED <<sessions, containerCache, runtime, setup, result, delReq,
                 staleReq, orphan, statusLog, swept, destroyInvoked, staleLog>>
  /\ UNCHANGED otherVars

\* the setInterval callback of startAutoCleanup: this.cleanupStaleSessions()
IntervalSweep ==
  /\ StaleIds(sessions, now) # {}
  /\ sessions' = cleanupStaleSessions(sessions, now)
  /\ swept' = swept \cup StaleIds(sessions, now)
  /\ statusLog' = Forget(statusLog, StaleIds(sessions, now))
  /\ UNCHANGED <<containerCache, runtime, setup, result, now, delReq, staleReq,
                 orphan, destroyInvoked, staleLog>>
  /\ UNCHANGED otherVars

\* destroyContainer up to its first await: it returns at once without a handle
DestroyStart(s, cache) == IF s \in cache THEN "destroying" ELSE "return"

\* container.stop() succeeds on a running container only
StopOk(s) == runtime[s] = "running"

\* what destroyContainer's try block can do to a container in the given
\* state, as <<state afterwards, handle evicted>>: stop throws; or, on a
\* running container, stop and remove succeed and the handle is evicted, or
\* remove throws after stop
DestroyResults(state) ==
  {<<state, FALSE>>} \cup
  (IF state = "running" THEN {<<"removed", TRUE>>, <<"exited", FALSE>>} ELSE {})

\* destroyContainer from container.stop() to its return.  stop and remove are
\* consecutive calls on one container, taken as one step: both succeed and
\* the handle is evicted, or stop fails, or remove fails after stop; a failure
\* is caught and logged and leaves the handle cached.
DestroySettle(s) ==
  \E d \in DestroyResults(runtime[s]) :
    /\ runtime' = [runtime EXCEPT ![s] = d[1]]
    /\ containerCache' = IF d[2] THEN containerCache \ {s} ELSE containerCache

\* POST stale cleanup, up to the awaits of the destroyContainer calls: the
\* sweep, then per swept id getSession (undefined: the record is gone, so
\* cleanupInjection is skipped) and destroyContainer
StaleCleanup ==
  /\ StaleIds(sessions, now) # {}
  /\ \A s \in StaleIds(sessions, now) : staleReq[s] = "none"
  /\ sessions' = cleanupStaleSessions(sessions, now)
  /\ swept' = swept \cup StaleIds(sessions, now)
  /\ destroyInvoked' = destroyInvoked \cup StaleIds(sessions, now)
  /\ staleLog' = staleLog \cup
       {[id |-> s, injected |-> pickerInjected(sessions[s]),
         cleaned |-> pickerInjected(getSession(sessions', s, now)[s])] :
          s \in StaleIds(sessions, now)}
  /\ staleReq' = [s \in SessionIds |->
                    IF s \in StaleIds(sessions, now)
                    THEN DestroyStart(s, containerCache) ELSE staleReq[s]]
  /\ statusLog' = Forget(statusLog, StaleIds(sessions, now))
  /\ UNCHANGED <<containerCache, runtime, setup, result, now, delReq, orphan>>
  /\ UNCHANGED otherVars

\* POST stale cleanup: the destroyContainer call for s returns
StaleDestroyDone(s) ==
  /\ \/ /\ staleReq[s] = "destroying"
        /\ DestroySettle(s)
     \/ /\ staleReq[s] = "return"
        /\ UNCHANGED <<runtime, containerCache>>
  /\ staleReq' = [staleReq EXCEPT ![s] = "none"]
  /\ UNCHANGED <<sessions, setup, result, now, delReq, orphan, statusLog, swept,
                 destroyInvoked, staleLog>>
  /\ UNCHANGED otherVars

\* DELETE /api/session/<id>/cleanup up to the await of destroyContainer
DeleteStart(s) ==
  /\ delReq[s] = "none"
  /\ sessions[s] # NoSession
  /\ sessions' = getSession(sessions, s, now)
  /\ delReq' = [delReq EXCEPT ![s] = DestroyStart(s, containerCache)]
  /\ UNCHANGED <<containerCache, runtime, setup, result, now, staleReq, orphan,
                 statusLog, swept, destroyInvoked, staleLog>>
  /\ UNCHANGED otherVars

\* DELETE after destroyContainer returned: deleteSession
DeleteDone(s) ==
  /\ \/ /\ delReq[s] = "destroying"
        /\ DestroySettle(s)
     \/ /\ delReq[s] = "return"
        /\ UNCHANGED <<runtime, containerCache>>
  /\ sessions' = deleteSession(sessions, s)
  /\ statusLog' = Forget(statusLog, {s})
  /\ delReq' = [delReq EXCEPT ![s] = "none"]
  /\ UNCHANGED <<setup, result, now, staleReq, orphan, swept, destroyInvoked, staleLog>>
  /\ UNCHANGED otherVars

\* docker.listContainers({all: true, filters: {name: ['pilot-session-']}})
Listed == {c \in SessionIds : runtime[c] \in {"created", "running", "exited"}}

\* POST /api/cleanup: cleanupOrphanedContainers up to its loop
OrphanStart ==
  /\ orphan = {}
  /\ Listed # {}
  /\ orphan' = Listed
  /\ UNCHANGED <<sessions, containerCache, runtime, setup, result, now, delReq,
                 staleReq, statusLog, swept, destroyInvoked, staleLog>>
  /\ UNCHANGED otherVars

\* one round of the loop: stop then remove, a failure of either is caught
\* and the loop goes on; the handle cache is not touched
OrphanStep(c) ==
  /\ c \in orphan
  /\ orphan' = orphan \ {c}
  /\ \/ /\ StopOk(c)
        /\ runtime' = [runtime EXCEPT ![c] = "removed"]
     \/ UNCHANGED runtime
     \/ /\ StopOk(c)
        /\ runtime' = [runtime EXCEPT ![c] = "exited"]
  /\ UNCHANGED <<sessions, containerCache, setup, result, now, delReq, staleReq,
                 statusLog, swept, destroyInvoked, staleLog>>
  /\ UNCHANGED otherVars

RepoSetup(s) ==
  \/ Start(s)
  \/ CreateDoneOk(s)
  \/ CreateDoneFail(s)
  \/ CloneDone(s)
  \/ CopyDone(s)
  \/ DetectDone(s)
  \/ InstallDone(s)
  \/ BuildDone(s)
  \/ InjectDone(s)
  \/ LaunchDone(s)
  \/ ProbeDone(s)

\* concurrent repoSetup calls, session cleanup requests and the orphan reaper,
\* within one hour
Next ==
  \/ \E s \in Concurrent : RepoSetup(s)
  \/ \E s \in SessionIds : DeleteStart(s)
  \/ \E s \in SessionIds : DeleteDone(s)
  \/ OrphanStart
  \/ \E c \in SessionIds : OrphanStep(c)

Spec == Init /\ [][Next]_vars

\* concurrent repoSetup calls, status polling, the passing of time and the
\* two reclamation sweeps
NextSweep ==
  \/ \E s \in Concurrent : RepoSetup(s)
  \/ \E s \in SessionIds : StatusQuery(s)
  \/ Tick
  \/ IntervalSweep
  \/ StaleCleanup
  \/ \E s \in SessionIds : StaleDestroyDone(s)

SweepSpec == Init /\ [][NextSweep]_vars

\* a registry as earlier repoSetup calls leave it: the sessions of held are
\* running on the ports of held, the others have not been set up
Settled(port) ==
  [sessionId |-> "", containerId |-> "", buildStatus |-> "running",
   previewReady |-> TRUE, previewPort |-> port, lastActivity |-> 0,
   pickerInjected |-> TRUE]

MaxPort == 4    \* ports PortFloor .. PortFloor + MaxPort - 1 are drawn

InitPort ==
  /\ \E held \in [SessionIds -> {NoPort} \cup (PortFloor..(PortFloor + MaxPort - 1))] :
       /\ \E s \in SessionIds : held[s] = NoPort
       /\ sessions = [s \in SessionIds |->
                        IF held[s] = NoPort THEN NoSession
                        ELSE Merge(Settled(held[s]),
                                   [sessionId |-> s, containerId |-> s])]
       /\ containerCache = {s \in SessionIds : held[s] # NoPort}
       /\ runtime = [s \in SessionIds |->
                       IF held[s] = NoPort THEN "absent" ELSE "running"]
       /\ setup = [s \in SessionIds |->
                     IF held[s] = NoPort THEN InitSetup
                     ELSE [InitSetup EXCEPT
                             !.pc = "done", !.hostPort = held[s],
                             !.injectOk = TRUE, !.launched = TRUE,
                             !.probe = [serverReady |-> TRUE, responded |-> TRUE,
                                        exhausted |-> FALSE]]]
       /\ result = [s \in SessionIds |->
                      IF held[s] = NoPort THEN NoResult ELSE SuccessResult]
       /\ statusLog = [s \in SessionIds |->
                         IF held[s] = NoPort THEN << >>
                         ELSE <<"idle", "cloning", "building", "running">>]
  /\ now = 0
  /\ delReq = [s \in SessionIds |-> "none"]
  /\ staleReq = [s \in SessionIds |-> "none"]
  /\ orphan = {}
  /\ swept = {}
  /\ destroyInvoked = {}
  /\ staleLog = {}
  /\ InitProgress
  /\ InitSandbox
  /\ InitManager

\* the port scan of a repoSetup call, on every registry of up to two sessions
NextPort == \E s \in SessionIds : Start(s)

PortSpec == InitPort /\ [][NextPort]_vars

\* ------------------------------------- experimentCodeUpdate and progress
\* variant: a timer that runs two minutes late
TimerLate(r, id, h, t) == [of |-> r, id |-> id, inputHash |-> h, due |-> t + Ttl + 2]

\* the timer set by create(id, inputHash) of call r
Timer(r, id, h, t) == [of |-> r, id |-> id, inputHash |-> h, due |-> t + Ttl]

\* experiment-code-update.ts lines 955-1003: the ids, progressStore.create,
\* the first update, up to the await of createContainer (no sessionId given)
\* or of createDockerTools
RunStart(r) ==
  /\ run[r].pc = "start"
  /\ \E providedSessionId \in {NoId, "s1"}, h \in InputHashes(r) :
       LET isExistingContainer == providedSessionId # NoId
           id == IF isExistingContainer THEN providedSessionId ELSE uuid(r)
           ex1 == create(executions, id, r)
           ex2 == update(ex1, id,
                         IF isExistingContainer
                         THEN "Using existing container for experiment code update..."
                         ELSE "Creating Docker container...", "info")
       IN /\ executions' = ex2
          /\ inputHashToExecutionId' = [inputHashToExecutionId EXCEPT ![h] = id]
          /\ timers' = timers \cup {Timer(r, id, h, minute)}
          /\ run' = [run EXCEPT ![r] =
                       [pc |-> IF isExistingContainer THEN "agent" ELSE "creating",
                        executionId |-> id, inputHash |-> h,
                        createdAt |-> minute, steps |-> 0]]
  /\ UNCHANGED <<minute, stream>>
  /\ UNCHANGED <<orchVars, injectionVars, managerVars>>

\* lines 986-995: createContainer settled
RunCreateDone(r) ==
  /\ run[r].pc = "creating"
  /\ \/ LET ex2 == update(executions, run[r].executionId,
                          "Starting experiment code update...", "info")
        IN /\ executions' = ex2
           /\ stream' = Notify(stream, executions, ex2, run[r].executionId)
           /\ run' = [run EXCEPT ![r].pc = "agent"]
     \/ LET ex2 == complete(executions, run[r].executionId, FALSE)
        IN /\ executions' = ex2
           /\ stream' = Notify(stream, executions, ex2, run[r].executionId)
           /\ run' = [run EXCEPT ![r].pc = "done"]
  /\ UNCHANGED <<inputHashToExecutionId, timers, minute>>
  /\ UNCHANGED <<orchVars, injectionVars, managerVars>>

\* lines 1047-1074: onStepFinish reports a stage (the cooldown let it pass)
RunStep(r) ==
  /\ run[r].pc = "agent"
  /\ run[r].steps < MaxSteps
  /\ \E stage \in Stages :
       LET ex2 == update(executions, run[r].executionId, stage, "info")
       IN /\ executions' = ex2
          /\ stream' = Notify(stream, executions, ex2, run[r].executionId)
  /\ run' = [run EXCEPT ![r].steps = @ + 1]
  /\ UNCHANGED <<inputHashToExecutionId, timers, minute>>
  /\ UNCHANGED <<orchVars, injectionVars, managerVars>>

\* lines 1102-1141: the sub-agent's stream ended (complete(id, true)) or
\* something in the try block threw (complete(id, false))
RunFinish(r) ==
  /\ run[r].pc = "agent"
  /\ \E success \in BOOLEAN :
       LET ex2 == complete(executions, run[r].executionId, success)
       IN /\ executions' = ex2
          /\ stream' = Notify(stream, executions, ex2, run[r].executionId)
  /\ run' = [run EXCEPT ![r].pc = "done", ![r].steps = 0]
  /\ UNCHANGED <<inputHashToExecutionId, timers, minute>>
  /\ UNCHANGED <<orchVars, injectionVars, managerVars>>

\* the callback of the timer set by create
Expire(t) ==
  /\ t \in timers
  /\ t.due <= minute
  /\ executions' = [executions EXCEPT ![t.id] = NoExecution]
  /\ inputHashToExecutionId' = [inputHashToExecutionId EXCEPT ![t.inputHash] = NoId]
  /\ timers' = timers \ {t}
  /\ UNCHANGED <<minute, run, stream>>
  /\ UNCHANGED <<orchVars, injectionVars, managerVars>>

\* a minute passes; a timer that is due runs before the clock moves on
ProgressTick ==
  /\ minute < MaxClock
  /\ \A t \in timers : t.due > minute
  /\ minute' = minute + 1
  /\ UNCHANGED <<executions, inputHashToExecutionId, timers, run, stream>>
  /\ UNCHANGED <<orchVars, injectionVars, managerVars>>

\* execution.subscribers.delete(callback), on the object c subscribed to
Unsubscribed(ex, c) ==
  IF /\ stream[c].id # NoId
     /\ ex[stream[c].id] # NoExecution
     /\ ex[stream[c].id].owner = stream[c].owner
  THEN [ex EXCEPT ![stream[c].id].subscribers = @ \ {c}]
  ELSE ex

\* progressStore.subscribe(id, callback): the history is replayed
Subscribe(c, id) ==
  /\ stream[c].state = "idle"
  /\ IF executions[id] = NoExecution
     THEN /\ stream' = [stream EXCEPT ![c].state = "unknown"]
          /\ UNCHANGED executions
     ELSE /\ executions' = [executions EXCEPT ![id].subscribers = @ \cup {c}]
          /\ stream' = [stream EXCEPT ![c] =
                          [state |-> "open", id |-> id,
                           owner |-> executions[id].owner,
                           replayed |-> Len(executions[id].messages),
                           received |-> executions[id].messages,
                           closing |-> FALSE]]
  /\ UNCHANGED <<inputHashToExecutionId, timers, minute, run>>
  /\ UNCHANGED <<orchVars, injectionVars, managerVars>>

\* whether subscribe() of the stream endpoint replays the history
StreamReplayTwice == TRUE

StreamReplay == FALSE

\* GET progress stream: 404 for an unknown id; otherwise the history is
\* sent, the stream subscribes, and a completed execution has the close timer
\* set
StreamOpen(c, id) ==
  /\ stream[c].state = "idle"
  /\ IF ~exists(executions, id)
     THEN /\ stream' = [stream EXCEPT ![c].state = "notfound"]
          /\ UNCHANGED executions
     ELSE /\ executions' = [executions EXCEPT ![id].subscribers = @ \cup {c}]
          /\ stream' = [stream EXCEPT ![c] =
                          [state |-> "open", id |-> id,
                           owner |-> executions[id].owner,
                           replayed |-> Len(getMessages(executions, id)),
                           received |-> getMessages(executions, id) \o
                                        (IF StreamReplay
                                         THEN executions[id].messages ELSE << >>),
                           closing |-> isCompleted(executions, id)]]
  /\ UNCHANGED <<inputHashToExecutionId, timers, minute, run>>
  /\ UNCHANGED <<orchVars, injectionVars, managerVars>>

\* the unsubscribe handle is called: by the owner of a callback, or by the
\* abort listener of a stream, which then closes the stream
Unsubscribe(c) ==
  /\ stream[c].state = "open"
  /\ executions' = Unsubscribed(executions, c)
  /\ stream' = [stream EXCEPT ![c].state = "closed", ![c].replayed = 0]
  /\ UNCHANGED <<inputHashToExecutionId, timers, minute, run>>
  /\ UNCHANGED <<orchVars, injectionVars, managerVars>>

\* the 100 ms timer of a stream opened on a completed execution
StreamCloseTimer(c) ==
  /\ stream[c].closing
  /\ executions' = Unsubscribed(executions, c)
  /\ stream' = [stream EXCEPT ![c].state = "closed", ![c].replayed = 0,
                            ![c].closing = FALSE]
  /\ UNCHANGED <<inputHashToExecutionId, timers, minute, run>>
  /\ UNCHANGED <<orchVars, injectionVars, managerVars>>

\* experimentCodeUpdate calls and the timers of their progress executions,
\* as the minutes pass
NextProgress ==
  \/ \E r \in Runs : RunStart(r)
  \/ \E r \in Runs : RunCreateDone(r)
  \/ \E r \in Runs : RunStep(r)
  \/ \E r \in Runs : RunFinish(r)
  \/ \E t \in timers : Expire(t)
  \/ ProgressTick

ProgressSpec == Init /\ [][NextProgress]_vars

\* experimentCodeUpdate calls and the consumers of their progress messages,
\* within the first minute
NextStream ==
  \/ \E r \in Runs : RunStart(r)
  \/ \E r \in Runs : RunCreateDone(r)
  \/ \E r \in Runs : RunStep(r)
  \/ \E r \in Runs : RunFinish(r)
  \/ \E c \in Callbacks, id \in ExecIds : Subscribe(c, id)
  \/ \E c \in Requests, id \in ExecIds : StreamOpen(c, id)
  \/ \E c \in Streams : Unsubscribe(c)
  \/ \E c \in Streams : StreamCloseTimer(c)

StreamSpec == Init /\ [][NextStream]_vars

\* the call followed through a long sub-agent run
SlowRuns == {"r1"}

\* one experimentCodeUpdate call, a subscriber of its progress execution, and
\* the expiry timer, as the minutes pass
NextSlow ==
  \/ \E r \in SlowRuns : RunStart(r)
  \/ \E r \in SlowRuns : RunCreateDone(r)
  \/ \E r \in SlowRuns : RunStep(r)
  \/ \E r \in SlowRuns : RunFinish(r)
  \/ \E c \in Callbacks, id \in ExecIds : Subscribe(c, id)
  \/ \E c \in Callbacks : Unsubscribe(c)
  \/ \E t \in timers : Expire(t)
  \/ ProgressTick

\* an awaited createContainer settles and the sub-agent's stream ends; a due
\* timer runs and the clock moves on; subscribers need not unsubscribe
FairSlow ==
  /\ \A r \in SlowRuns : WF_vars(RunCreateDone(r))
  /\ \A r \in SlowRuns : WF_vars(RunFinish(r))
  /\ WF_vars(\E t \in timers : Expire(t))
  /\ WF_vars(ProgressTick)

SlowSpec == Init /\ [][NextSlow]_vars /\ FairSlow

\* ------------------------------------------- picker injection and rollback
\* the entry points of a cloned repository
Repos ==
  {repo \in [EntryPaths -> {NoFile} \cup UNION {Originals(p) : p \in EntryPaths}] :
     \A p \in EntryPaths : repo[p] = NoFile \/ repo[p] \in Originals(p)}

\* a container whose manifest records two modified files, with their backups
TwoRecorded(repo, cached) ==
  [cached |-> cached,
   repo |-> [repo EXCEPT ![LayoutPath] = Modified(LayoutPath, Decoded(repo[LayoutPath])),
                         ![HtmlPath] = Modified(HtmlPath, Decoded(repo[HtmlPath]))],
   backup |-> [p \in EntryPaths |->
                 IF p = DocumentPath THEN NoFile ELSE Decoded(repo[p])],
   picker |-> TRUE,
   manifest |-> Manifest(<<LayoutPath, HtmlPath>>)]

\* the container when the first call is made: as cloned, or with a manifest
\* that does not parse, or with a manifest of two files (the manifest is a
\* file of the container, which the commands run in it can write as well)
InitInject ==
  /\ InitOrchestrator
  /\ InitProgress
  /\ InitManager
  /\ \E repo \in Repos, cached \in BOOLEAN :
       /\ trail = NoTrail(Pristine(repo, cached))
       /\ \/ sandbox = Pristine(repo, cached)
          \/ sandbox = [Pristine(repo, cached) EXCEPT !.manifest = Unparsable]
          \/ /\ repo[LayoutPath] # NoFile /\ repo[HtmlPath] # NoFile
             /\ ~repo[LayoutPath].marked
             /\ Modified(LayoutPath, Decoded(repo[LayoutPath])) # NoInsertionPoint
             /\ sandbox = TwoRecorded(repo, cached)

\* a call made: its name, the failures it met, what it returned, and the
\* container it found
Op(name, faults, success, files, before) ==
  [op |-> name, faults |-> faults, success |-> success, files |-> files,
   before |-> before]

\* the calls made so far are a first one then a second one, neither met a
\* helper failure, and the first was an injectPicker that succeeded on a
\* container as cloned
CleanPair(first, second) ==
  /\ Len(trail.ops) = 2
  /\ trail.ops[1].op = first /\ trail.ops[2].op = second
  /\ trail.ops[1].faults = {} /\ trail.ops[2].faults = {}
  /\ trail.ops[1].before = trail.original
  /\ trail.ops[1].before.cached
  /\ trail.ops[1].success

InjectPicker(framework, fault) ==
  /\ Len(trail.ops) < MaxOps
  /\ LET r == injectPicker(sandbox, framework, fault)
     IN /\ sandbox' = r.sandbox
        /\ trail' = [trail EXCEPT
                       !.ops = Append(@, Op("inject", {fault} \ {"none"},
                                            r.success, r.filesModified, sandbox))]
  /\ UNCHANGED <<orchVars, progressVars, managerVars>>

\* cleanupInjection; past MaxOps calls it is drawn once more, with no helper
\* failure, after two injectPicker calls that met none
CleanupInjection(faults) ==
  /\ \/ Len(trail.ops) < MaxOps
     \/ faults = {} /\ CleanPair("inject", "inject")
  /\ LET r == cleanupInjection(sandbox, faults)
     IN /\ sandbox' = r.sandbox
        /\ trail' = [trail EXCEPT
                       !.ops = Append(@, Op("cleanup", faults, ~r.thrown, << >>,
                                            sandbox))]
  /\ UNCHANGED <<orchVars, progressVars, managerVars>>

\* injectPicker and cleanupInjection calls on one container, one after the
\* other, each with the helper failures it can meet
NextInject ==
  \/ \E framework \in Frameworks, fault \in InjectFaults : InjectPicker(framework, fault)
  \/ \E faults \in SUBSET CleanupSites : CleanupInjection(faults)

InjectSpec == InitInject /\ [][NextInject]_vars

\* -------------------------------------- direct calls of the lib/docker API
\* the orchestrator state a direct call leaves alone
managerIdle ==
  <<setup, result, now, delReq, staleReq, orphan, statusLog, swept,
    destroyInvoked, staleLog, progressVars, injectionVars,
    detection>>

\* what the awaits of createContainer can leave behind, as <<state of the
\* container, inspection.State.Status>>; "none": a throw came before a status
\* was read (ensureImageExists or docker.createContainer threw: no container;
\* container.start threw: a created container; container.inspect threw)
CreateOutcomes ==
  {<<"absent", "none">>, <<"created", "none">>, <<"running", "none">>,
   <<"created", "created">>, <<"exited", "exited">>, <<"running", "running">>}

\* a variant that caches the handle as soon as the container exists
CacheOnCreate(cache, s, o) == IF o[1] # "absent" THEN cache \cup {s} ELSE cache

\* containerCache.set(sessionId, container) comes after the throw on
\* inspection.State.Status !== 'running'
CacheIfRunning(cache, s, o) == IF o[2] = "running" THEN cache \cup {s} ELSE cache

\* createContainer as a whole, called with a fresh id (both callers pass a
\* randomUUID): the container runs and its handle is cached, or a step failed
\* and the function throws 'Failed to create Docker container'
CreateContainer(s) ==
  /\ runtime[s] = "absent"
  /\ \E o \in CreateOutcomes :
       /\ runtime' = [runtime EXCEPT ![s] = o[1]]
       /\ containerCache' = CacheIfRunning(containerCache, s, o)
       /\ reply' = Reply("createContainer", s, s \in containerCache, TRUE,
                         IF o[2] = "running" THEN "returned" ELSE "error",
                         containerCache)
  /\ UNCHANGED sessions
  /\ UNCHANGED managerIdle

\* the container stops by itself or is stopped from outside
ContainerExits(s) ==
  /\ runtime[s] = "running"
  /\ runtime' = [runtime EXCEPT ![s] = "exited"]
  /\ UNCHANGED <<sessions, containerCache, reply>>
  /\ UNCHANGED managerIdle

\* the functions that start with: const container = containerCache.get(id);
\* if (!container) throw new Error(`No container found for session: ...`).
\* With a handle the call reaches the runtime and returns or throws.
HandleCall(op, s) ==
  /\ IF Issue(s, containerCache)
     THEN \E o \in (IF runtime[s] = "running" THEN {"returned", "error"} ELSE {"error"}) :
            reply' = Reply(op, s, s \in containerCache, TRUE, o, containerCache)
     ELSE reply' = Reply(op, s, s \in containerCache, FALSE, "notfound", containerCache)
  /\ UNCHANGED <<sessions, containerCache, runtime>>
  /\ UNCHANGED managerIdle

ExecCommand(s) == HandleCall("execCommand", s)

ReadFile(s) == HandleCall("readFile", s)

WriteFile(s) == HandleCall("writeFile", s)

ListDirectory(s) == HandleCall("listDirectory", s)

\* a variant whose catch block throws the error again
DestroyRethrow(failed) == IF failed THEN "error" ELSE "returned"

\* the catch block of destroyContainer: logger.error, then "Don't throw"
DestroyCaught(failed) == "returned"

\* destroyContainer as a whole.  The handle is evicted after stop and remove
\* inside the try block, so it is still cached exactly when one of them threw.
DestroyContainer(s) ==
  /\ IF DestroyStart(s, containerCache) = "return"
     THEN /\ UNCHANGED <<runtime, containerCache>>
          /\ reply' = Reply("destroyContainer", s, FALSE, FALSE, "returned",
                            containerCache)
     ELSE /\ DestroySettle(s)
          /\ reply' = Reply("destroyContainer", s, TRUE, TRUE,
                            DestroyCaught(s \in containerCache'), containerCache)
  /\ UNCHANGED sessions
  /\ UNCHANGED managerIdle

\* what one round of the reaper's loop does to a listed container: stop and
\* remove succeed, stop throws (remove is then skipped: both are in one try
\* block), or remove throws after stop
ReapOutcomes == {"removed", "stopThrows", "removeThrows"}

\* the reply of cleanupOrphanedContainers with the attempts it made
Reaped(listed, stopTried, removeTried, cache) ==
  [op |-> "cleanupOrphanedContainers", id |-> "", found |-> FALSE,
   issued |-> TRUE, outcome |-> "returned", cache |-> cache, listed |-> listed,
   stopTried |-> stopTried, removeTried |-> removeTried]

\* cleanupOrphanedContainers as a whole: the listing throws and the outer
\* catch logs it, or every listed container gets its round of the loop, each
\* in its own try/catch; the handle cache is never consulted or changed
CleanupOrphanedContainers ==
  /\ \/ /\ UNCHANGED runtime
        /\ reply' = Reaped({}, {}, {}, containerCache)
     \/ \E f \in [Listed -> ReapOutcomes] :
          /\ \A c \in Listed : f[c] # "stopThrows" => StopOk(c)
          /\ runtime' = [c \in SessionIds |->
                           IF c \notin Listed THEN runtime[c]
                           ELSE IF f[c] = "removed" THEN "removed"
                           ELSE IF f[c] = "removeThrows" THEN "exited"
                           ELSE runtime[c]]
          /\ reply' = Reaped(Listed, Listed,
                             {c \in Listed : f[c] # "stopThrows"}, containerCache)
  /\ UNCHANGED <<sessions, containerCache>>
  /\ UNCHANGED managerIdle

\* the reply of an experimentCodeUpdate call; provided: a sessionId was given
Tooled(id, provided, found, outcome, cache) ==
  [op |-> "experimentCodeUpdate", id |-> id, found |-> found,
   issued |-> ~provided, outcome |-> outcome, cache |-> cache,
   provided |-> provided]

\* the finally block: if (!isExistingContainer) destroyContainer(executionId)
ToolDestroys(provided) == ~provided

\* experimentCodeUpdate as a whole, for its container.  With a sessionId the
\* container calls are skipped.  Without one, createContainer is awaited
\* outside the try block (its throw ends the call), then the sub-agent runs,
\* during which the container may stop, and the finally block calls
\* destroyContainer; the call returns or throws 'Code update failed'.
ExperimentCodeUpdate(s, provided) ==
  /\ IF provided
     THEN \E outcome \in {"returned", "error"} :
            /\ IF ToolDestroys(provided) /\ s \in containerCache
               THEN DestroySettle(s)
               ELSE UNCHANGED <<runtime, containerCache>>
            /\ reply' = Tooled(s, TRUE, s \in containerCache, outcome,
                               containerCache)
     ELSE /\ runtime[s] = "absent"
          /\ \E o \in CreateOutcomes :
               IF o[2] # "running"
               THEN /\ runtime' = [runtime EXCEPT ![s] = o[1]]
                    /\ UNCHANGED containerCache
                    /\ reply' = Tooled(s, FALSE, FALSE, "error", containerCache)
               ELSE \E outcome \in {"returned", "error"},
                       during \in {"running", "exited"} :
                    \E d \in DestroyResults(during) :
                      /\ runtime' = [runtime EXCEPT ![s] = d[1]]
                      /\ containerCache' =
                           IF d[2] THEN containerCache \ {s}
                           ELSE CacheIfRunning(containerCache, s, o)
                      /\ reply' = Tooled(s, FALSE, FALSE, outcome, containerCache)
  /\ UNCHANGED sessions
  /\ UNCHANGED managerIdle

CreateSession(s) ==
  /\ sessions[s] = NoSession
  /\ sessions' = createSession(sessions, s, now)
  /\ reply' = Reply("createSession", s, FALSE, FALSE, "returned", containerCache)
  /\ UNCHANGED <<containerCache, runtime>>
  /\ UNCHANGED managerIdle

\* updateSession: without a record it warns and returns
UpdateSession(s) ==
  /\ sessions' = updateSession(sessions, s, [previewReady |-> FALSE], now)
  /\ reply' = Reply("updateSession", s, sessions[s] # NoSession, FALSE, "returned",
                    containerCache)
  /\ UNCHANGED <<containerCache, runtime>>
  /\ UNCHANGED managerIdle

\* the lib/docker and registry functions called one after the other with any
\* session id
NextManager ==
  \/ \E s \in SessionIds : CreateContainer(s)
  \/ \E s \in SessionIds : ContainerExits(s)
  \/ \E s \in SessionIds : ExecCommand(s)
  \/ \E s \in SessionIds : ReadFile(s)
  \/ \E s \in SessionIds : WriteFile(s)
  \/ \E s \in SessionIds : ListDirectory(s)
  \/ \E s \in SessionIds : DestroyContainer(s)
  \/ CleanupOrphanedContainers
  \/ \E s \in SessionIds : CreateSession(s)
  \/ \E s \in SessionIds : UpdateSession(s)

ManagerSpec == Init /\ [][NextManager]_vars

\* experimentCodeUpdate calls, each taken as a whole, next to direct
\* createContainer and destroyContainer calls and containers that stop
NextTool ==
  \/ \E s \in SessionIds, provided \in BOOLEAN : ExperimentCodeUpdate(s, provided)
  \/ \E s \in SessionIds : CreateContainer(s)
  \/ \E s \in SessionIds : ContainerExits(s)
  \/ \E s \in SessionIds : DestroyContainer(s)

ToolSpec == Init /\ [][NextTool]_vars

\* ------------------------------------------- direct calls of the registry
\* the maxInactivityMs arguments tried, in ticks
Thresholds == {0, 1}

\* the partial records passed to updateSession: Partial<SessionData> admits
\* every field, sessionId and lastActivity included
Updates ==
  {[buildStatus |-> "running"], [lastActivity |-> 0], [sessionId |-> "s1"]}

\* the reply of a registry call made at time at
Touched(op, id, found, at) ==
  [op |-> op, id |-> id, found |-> found, issued |-> FALSE,
   outcome |-> "returned", cache |-> containerCache, at |-> at]

\* what a sweep remembers of the call before it
Before(r) ==
  IF r.op = "cleanupStaleSessions"
  THEN [op |-> r.op, at |-> r.at, max |-> r.max, returned |-> r.returned]
  ELSE [op |-> r.op, at |-> 0, max |-> 0, returned |-> {}]

\* the reply of cleanupStaleSessions: the list returned, the keys that left
\* the registry, and the call that came before
Swept(at, max, returned, deleted, after) ==
  [op |-> "cleanupStaleSessions", id |-> "", found |-> FALSE, issued |-> FALSE,
   outcome |-> "returned", cache |-> containerCache, at |-> at, max |-> max,
   returned |-> returned, deleted |-> deleted, after |-> after]

GetSession(s) ==
  /\ sessions' = getSession(sessions, s, now)
  /\ reply' = Touched("getSession", s, sessions[s] # NoSession, now)
  /\ UNCHANGED <<containerCache, runtime>>
  /\ UNCHANGED managerIdle

UpdateSessionPartial(s, u) ==
  /\ sessions' = updateSession(sessions, s, u, now)
  /\ reply' = Touched("updateSession", s, sessions[s] # NoSession, now)
  /\ UNCHANGED <<containerCache, runtime>>
  /\ UNCHANGED managerIdle

DeleteSession(s) ==
  /\ sessions[s] # NoSession
  /\ sessions' = deleteSession(sessions, s)
  /\ reply' = Touched("deleteSession", s, TRUE, now)
  /\ UNCHANGED <<containerCache, runtime>>
  /\ UNCHANGED managerIdle

CleanupStaleSessions(max) ==
  /\ sessions' = cleanupStaleSessionsOlder(sessions, now, max)
  /\ reply' = Swept(now, max, staleSessionIds(sessions, now, max),
                    {s \in SessionIds : sessions[s] # NoSession
                                         /\ sessions'[s] = NoSession},
                    Before(reply))
  /\ UNCHANGED <<containerCache, runtime>>
  /\ UNCHANGED managerIdle

\* the registry functions called one after the other while time passes
NextRegistry ==
  \/ \E s \in SessionIds : CreateSession(s)
  \/ \E s \in SessionIds : GetSession(s)
  \/ \E s \in SessionIds, u \in Updates : UpdateSessionPartial(s, u)
  \/ \E s \in SessionIds : DeleteSession(s)
  \/ \E max \in Thresholds : CleanupStaleSessions(max)
  \/ Tick

RegistrySpec == Init /\ [][NextRegistry]_vars

\* ------------------------------------------- direct calls of the detector
\* a sandbox whose manifest and lock files are yet to be examined
Undetected(read, probe) ==
  [called |-> FALSE, read |-> read, probe |-> probe, outcome |-> "returned",
   config |-> DefaultConfig]

\* every manifest and every outcome of the lock-file probes
InitDetect ==
  /\ InitOrchestrator /\ InitProgress /\ InitSandbox
  /\ reply = NoReply
  /\ detection \in {Undetected(read, probe) : read \in ManifestReads, probe \in Probes}

\* detectBuildConfig as a whole on the sandbox's content: it always returns
DetectBuildConfig ==
  /\ ~detection.called
  /\ detection' = [detection EXCEPT
                     !.called = TRUE,
                     !.config = detectBuildConfig(detection.read, detection.probe)]
  /\ UNCHANGED <<orchVars, progressVars, injectionVars, reply>>

NextDetect == DetectBuildConfig

DetectSpec == InitDetect /\ [][NextDetect]_vars

\* ------------------------------------------------------------ claims
Exists(s) == sessions[s] # NoSession

\* the allowed successions of stored buildStatus values
Follows(a, b) ==
  \/ a = "idle" /\ b = "cloning"
  \/ a = "cloning" /\ b = "building"
  \/ a = "building" /\ b = "running"
  \/ a # "running" /\ b = "failed"

\* C1: the buildStatus values written to a session's record start at idle and
\* each one follows the one before along idle -> cloning -> building ->
\* running, or is failed written over a status other than running; the record
\* holds the last value written.
C1_StatusOnlyForward ==
  \A s \in SessionIds :
    /\ \A i \in 1..(Len(statusLog[s]) - 1) :
         Follows(statusLog[s][i], statusLog[s][i + 1])
    /\ statusLog[s] # << >> => statusLog[s][1] = "idle"
    /\ Exists(s) => /\ statusLog[s] # << >>
                    /\ sessions[s].buildStatus = statusLog[s][Len(statusLog[s])]

\* a setup that ran out of probe attempts: failed written twice (line 184 and
\* the catch block) after idle, cloning, building
C1_Witness ==
  \E s \in SessionIds :
    statusLog[s] = <<"idle", "cloning", "building", "failed", "failed">>

\* C2: every session id a sweep (cleanupStaleSessions) removed has had
\* destroyContainer called with it by the handler that ran the sweep.
C2_SweepDestroysSandbox == swept \subseteq destroyInvoked

\* C3: no two sessions in the registry hold the same previewPort.
C3_NoSharedPort ==
  \A s, t \in SessionIds :
    (s # t /\ Exists(s) /\ Exists(t) /\ sessions[s].previewPort # NoPort)
      => sessions[s].previewPort # sessions[t].previewPort

\* C4: the port scan of repoSetup yields the lowest port >= 3001 that is not
\* the previewPort of a session in the registry at the time of the scan.
C4_LowestFreePort ==
  [][\A s \in SessionIds :
       (setup[s].pc = "start" /\ setup'[s].pc = "create") =>
         /\ setup'[s].hostPort >= PortFloor
         /\ \A t \in SessionIds :
              Exists(t) => sessions[t].previewPort # setup'[s].hostPort
         /\ \A q \in PortFloor..(setup'[s].hostPort - 1) :
              \E t \in SessionIds : Exists(t) /\ sessions[t].previewPort = q]_vars

\* a scan that passed two held ports
C4_Witness ==
  \E s \in SessionIds :
    /\ setup[s].pc = "create"
    /\ setup[s].hostPort = PortFloor + 2
    /\ \E t, u \in SessionIds :
         /\ Exists(t) /\ sessions[t].previewPort = PortFloor
         /\ Exists(u) /\ sessions[u].previewPort = PortFloor + 1

ProbeExhausted(s) ==
  /\ setup[s].pc = "done"
  /\ setup[s].probe.exhausted
  /\ ~setup[s].probe.serverReady

\* C5: a repoSetup call whose readiness loop used all its attempts without an
\* accepted response returns success = false with the timeout error, and the
\* session's record, if still in the registry, has buildStatus failed.
C5_ProbeExhaustionFails ==
  \A s \in SessionIds :
    ProbeExhausted(s) =>
      /\ result[s] = [kind |-> "value", success |-> FALSE, error |-> "timeout"]
      /\ Exists(s) => sessions[s].buildStatus = "failed"

C5_Witness ==
  \E s \in SessionIds :
    ProbeExhausted(s) /\ Exists(s) /\ sessions[s].buildStatus = "failed"

\* C6: whenever repoSetup has returned success = false for a session id, the
\* registry holds a record for that id whose buildStatus is failed.
C6_FailureIsObservable ==
  \A s \in SessionIds :
    (result[s].kind = "value" /\ ~result[s].success) =>
      (Exists(s) /\ sessions[s].buildStatus = "failed")

\* C7: a repoSetup call never ends with an exception; once it has ended it
\* has returned a value, and that value is success = false with an error
\* whenever a helper failed.
C7_NoExceptionEscapes ==
  \A s \in SessionIds :
    /\ result[s].kind # "exception"
    /\ setup[s].pc = "done" => result[s].kind = "value"
    /\ result[s].kind = "value" => (result[s].success <=> result[s].error = "none")

\* an awaited execCommand threw after the dev server had been launched or the
\* picker injected, and the call returned a failure
C7_Witness ==
  \E s \in SessionIds :
    /\ setup[s].pc = "done"
    /\ result[s] = [kind |-> "value", success |-> FALSE, error |-> "exec"]

\* C8: after a non-zero exit of the install or build command or a failed
\* injectPicker, the setup goes on with the session still building, and unless
\* a helper throws it launches the dev server and ends as the readiness loop
\* decides: running and success if a response was accepted, failed otherwise.
C8_SoftFailuresAreNotFatal ==
  \A s \in SessionIds :
    setup[s].soft =>
      /\ setup[s].pc \in {"build", "inject", "launch", "probe", "done"}
      /\ (setup[s].pc # "done" /\ Exists(s)) => sessions[s].buildStatus = "building"
      /\ (setup[s].pc = "done" /\ result[s].error # "exec") =>
           /\ setup[s].launched
           /\ result[s].success <=> setup[s].probe.serverReady
           /\ Exists(s) => sessions[s].buildStatus =
                             (IF setup[s].probe.serverReady THEN "running" ELSE "failed")

C8_Witness ==
  \E s \in SessionIds :
    /\ setup[s].soft
    /\ ~setup[s].injectOk
    /\ setup[s].pc = "done"
    /\ result[s].success
    /\ Exists(s) /\ sessions[s].buildStatus = "running"

\* C9: a repoSetup call whose readiness loop received an HTTP response, of
\* whatever status code, ends with the session running and previewReady.
C9_AnyResponseIsReady ==
  \A s \in SessionIds :
    (setup[s].pc = "done" /\ setup[s].probe.responded) =>
      /\ result[s].success
      /\ Exists(s) => (sessions[s].buildStatus = "running" /\ sessions[s].previewReady)

\* C10: a session has previewReady = true only if its buildStatus is running
\* and the readiness loop of its setup accepted a response.
C10_ReadyOnlyWhenRunning ==
  \A s \in SessionIds :
    (Exists(s) /\ sessions[s].previewReady) =>
      /\ sessions[s].buildStatus = "running"
      /\ setup[s].probe.serverReady

C10_Witness ==
  \E s \in SessionIds :
    Exists(s) /\ sessions[s].previewReady /\ setup[s].probe.serverReady

\* C11: in the timeline of every progress execution no two adjacent messages
\* are equal in both text and severity: an update or complete that repeats the
\* last stored message stores nothing, one that repeats an earlier message
\* after a different one is stored again.
C11_NoAdjacentDuplicates ==
  \A id \in ExecIds :
    exists(executions, id) =>
      \A i \in 1..(Len(executions[id].messages) - 1) :
        executions[id].messages[i] # executions[id].messages[i + 1]

\* a stage reported twice in a row was stored once, and stored again when it
\* was reported after a different stage
C11_Witness ==
  \E a, b \in Stages :
    /\ a # b
    /\ \A r \in Runs : run[r].executionId = "s1" /\ run[r].steps = MaxSteps
    /\ getMessages(executions, "s1") =
         <<ProgressMessage("Using existing container for experiment code update...", "info"),
           ProgressMessage(a, "info"), ProgressMessage(b, "info"),
           ProgressMessage(a, "info")>>

\* the calls whose create(id, inputHash) is more than five minutes old
Elapsed == {r \in Runs : run[r].pc # "start" /\ minute > run[r].createdAt + Ttl}

C13_CompletionIsLast ==
  \A id \in ExecIds :
    exists(executions, id) =>
      \A i \in 1..Len(executions[id].messages) :
        executions[id].messages[i] \in Terminal => i = Len(executions[id].messages)

\* the execution a consumer subscribed to is still the one stored under its id
Attached(c) ==
  /\ exists(executions, stream[c].id)
  /\ executions[stream[c].id].owner = stream[c].owner

\* C14: a consumer that subscribed to an execution (a callback with replay of
\* the history, or a stream that read the history and subscribed without
\* replay) and whose unsubscribe handle has not been called has received the
\* whole timeline of the execution, each message once and in order; once the
\* handle has been called it is no subscriber and receives nothing more.
C14_SubscriberSeesTimeline ==
  /\ [](\A c \in Streams :
          /\ (stream[c].state = "open" /\ Attached(c)) =>
               /\ c \in executions[stream[c].id].subscribers
               /\ stream[c].received = executions[stream[c].id].messages
          /\ stream[c].state # "open" =>
               \A id \in ExecIds :
                 exists(executions, id) => c \notin executions[id].subscribers)
  /\ [][\A c \in Streams :
          stream[c].state = "closed" => stream'[c].received = stream[c].received]_vars

\* a callback and a stream that both subscribed after the first message, both
\* hold the four messages of the timeline, two of them equal
C14_Witness ==
  \E id \in ExecIds :
    /\ exists(executions, id)
    /\ Len(executions[id].messages) = 4
    /\ executions[id].messages[2] = executions[id].messages[4]
    /\ \A c \in Streams :
         /\ stream[c].state = "open" /\ stream[c].id = id /\ Attached(c)
         /\ stream[c].replayed = 1
         /\ stream[c].received = executions[id].messages

\* C15: the server ends every progress stream of a completed execution: a
\* stream that is open on an execution that has completed has its close (the
\* 100 ms timer that unsubscribes and closes) pending, whether it was opened
\* before or after complete() was called.  Nothing else on the server closes
\* a stream.
C15_CompletedStreamCloses ==
  \A c \in Requests :
    (stream[c].state = "open" /\ Attached(c) /\ isCompleted(executions, stream[c].id))
      => stream[c].closing

\* C16: after injectPicker then cleanupInjection every entry point has its
\* original content, and the container holds no backup sibling, no picker
\* asset directory and no manifest.
C16_InjectThenCleanupRestores ==
  CleanPair("inject", "cleanup") =>
    /\ sandbox.repo = trail.original.repo
    /\ \A p \in EntryPaths : sandbox.backup[p] = NoFile
    /\ ~sandbox.picker
    /\ sandbox.manifest = NoFile

\* C17: a second injectPicker right after a first one that modified an entry
\* point changes nothing: the entry point, its backup and the manifest are
\* as the first call left them.
C17_SecondInjectIsNoOp ==
  (CleanPair("inject", "inject") /\ trail.ops[1].files # << >>) =>
    /\ trail.ops[2].success
    /\ sandbox = trail.ops[2].before

\* the last call made, when it is a cleanupInjection
LastCleanup == trail.ops[Len(trail.ops)]

\* C18: cleanupInjection never throws, and its steps are independent.  With
\* no manifest it can read and parse it restores nothing; a recorded file
\* whose restoration did not fail is restored from its backup whether or not
\* the restoration of another one failed; the picker directory and the
\* manifest are removed unless their own rm failed.
C18_CleanupStepsIndependent ==
  (trail.ops # << >> /\ LastCleanup.op = "cleanup") =>
    LET b == LastCleanup.before
        faults == LastCleanup.faults
        tracking == Tracking(b, faults)
    IN /\ LastCleanup.success
       /\ tracking = NoFile =>
            (sandbox.repo = b.repo /\ sandbox.backup = b.backup)
       /\ tracking # NoFile =>
            \A i \in 1..Len(tracking.files) :
              (b.backup[tracking.files[i]] # NoFile /\ ~RestoreThrows(b, i, faults)) =>
                /\ sandbox.repo[tracking.files[i]] = b.backup[tracking.files[i]]
                /\ sandbox.backup[tracking.files[i]] = NoFile
       /\ (b.cached /\ "picker" \notin faults) => ~sandbox.picker
       /\ (b.cached /\ "tracking" \notin faults) => sandbox.manifest = NoFile

\* the restoration of the first of two recorded files failed: the second is
\* back to its original, the picker directory and the manifest are gone
C18_Witness ==
  /\ Len(trail.ops) = 1
  /\ LastCleanup.op = "cleanup" /\ LastCleanup.faults = {"restore"}
  /\ LastCleanup.before.manifest = Manifest(<<LayoutPath, HtmlPath>>)
  /\ sandbox.backup[LayoutPath] # NoFile
  /\ sandbox.repo[LayoutPath].tag # "none"
  /\ sandbox.repo[HtmlPath] = trail.original.repo[HtmlPath]
  /\ sandbox.backup[HtmlPath] = NoFile
  /\ ~sandbox.picker /\ sandbox.manifest = NoFile

HandleOps == {"execCommand", "readFile", "writeFile", "listDirectory"}

\* C19: execCommand, readFile, writeFile and listDirectory called with a
\* session id that has no cached handle throw "No container found for
\* session", make no call to the container runtime and leave the cache as it
\* was.
C19_NoHandleIsNotFound ==
  (reply.op \in HandleOps /\ ~reply.found) =>
    /\ reply.outcome = "notfound"
    /\ ~reply.issued
    /\ containerCache = reply.cache

\* a call for an id whose container was destroyed, and so evicted, while
\* another id still has its handle
C19_Witness ==
  /\ reply.op \in HandleOps /\ ~reply.found
  /\ reply.outcome = "notfound"
  /\ runtime[reply.id] = "removed"
  /\ containerCache # {}

\* C20: every lib/docker or registry function called with a session id that
\* has no handle (no record, for the registry) reports not-found to its
\* caller: execCommand, readFile, writeFile, listDirectory, destroyContainer,
\* updateSession.
C20_UnknownIdIsReported ==
  (reply.op \in HandleOps \cup {"destroyContainer", "updateSession"} /\ ~reply.found) =>
    reply.outcome = "notfound"

\* C21: after destroyContainer(sessionId) returns, no handle is cached for
\* sessionId, whatever the outcome of the stop and remove calls.
C21_DestroyEvictsHandle ==
  reply.op = "destroyContainer" => reply.id \notin containerCache

\* C22: destroyContainer never raises: without a cached handle, and for any
\* failure of stop or remove, it returns normally.
C22_DestroyNeverRaises ==
  reply.op = "destroyContainer" => reply.outcome = "returned"

\* destroyContainer returned although stop or remove failed (the handle is
\* still cached) on a container that had stopped
C22_Witness ==
  /\ reply.op = "destroyContainer" /\ reply.found
  /\ reply.outcome = "returned"
  /\ reply.id \in containerCache
  /\ runtime[reply.id] = "exited"

\* C23: createContainer caches a handle under sessionId only if the
\* inspection after start reports running; when a step fails or the inspected
\* state is not running it throws and the cache holds no entry for sessionId.
C23_CachedOnlyWhenRunning ==
  /\ [](reply.op = "createContainer" =>
          /\ reply.outcome \in {"returned", "error"}
          /\ reply.outcome = "error" => reply.id \notin containerCache)
  /\ [][\A s \in SessionIds :
          (s \notin containerCache /\ s \in containerCache') =>
            /\ reply' = Reply("createContainer", s, FALSE, TRUE, "returned",
                              containerCache)
            /\ runtime'[s] = "running"]_vars

\* createContainer threw for an id whose container was created but is not
\* running, while an earlier call cached another id
C23_Witness ==
  /\ reply.op = "createContainer" /\ reply.outcome = "error"
  /\ runtime[reply.id] \in {"created", "exited"}
  /\ reply.id \notin containerCache
  /\ containerCache # {}

\* C24: cleanupOrphanedContainers attempts stop and removal for every
\* container of the name-filtered listing, cached or not, whatever happened to
\* the earlier ones, and never raises.
C24_ReaperAttemptsAll ==
  reply.op = "cleanupOrphanedContainers" =>
    /\ reply.outcome = "returned"
    /\ reply.stopTried = reply.listed
    /\ reply.removeTried = reply.listed

\* a sweep that directly follows a sweep with the same maximum
SweptTwice ==
  /\ reply.op = "cleanupStaleSessions"
  /\ reply.after.op = "cleanupStaleSessions"
  /\ reply.after.max = reply.max

\* C25 as stated: a second cleanupStaleSessions call with no registry read,
\* mutation or creation in between returns an empty list and deletes nothing.
C25_SecondSweepIsEmpty ==
  SweptTwice => (reply.returned = {} /\ reply.deleted = {})

\* C25 amended: a second cleanupStaleSessions call at the same clock reading,
\* with no registry call in between, returns an empty list and deletes
\* nothing.
C25_SecondSweepSameTimeIsEmpty ==
  (SweptTwice /\ reply.after.at = reply.at) =>
    (reply.returned = {} /\ reply.deleted = {})

\* the second of two sweeps at one clock reading, the first of which deleted
\* a session
C25_Witness ==
  /\ SweptTwice /\ reply.after.at = reply.at
  /\ reply.after.returned # {}
  /\ reply.returned = {}

\* C26: getSession and updateSession set lastActivity to the current time, so
\* it never decreases; cleanupStaleSessions(max) deletes exactly the sessions
\* whose lastActivity lies more than max before the sweep time.
C26_ActivityDrivesSweep ==
  /\ []((reply.op \in {"getSession", "updateSession"} /\ reply.found) =>
          sessions[reply.id].lastActivity = reply.at)
  /\ [](reply.op = "cleanupStaleSessions" =>
          /\ reply.returned = reply.deleted
          /\ \A s \in SessionIds :
               Exists(s) => reply.at - sessions[s].lastActivity <= reply.max)
  /\ [][\A s \in SessionIds :
          /\ (Exists(s) /\ sessions'[s] # NoSession) =>
               sessions'[s].lastActivity >= sessions[s].lastActivity
          /\ (Exists(s) /\ sessions'[s] = NoSession
                        /\ reply'.op = "cleanupStaleSessions") =>
               now - sessions[s].lastActivity > reply'.max]_vars

\* a sweep deleted one session and kept another whose inactivity equals the
\* maximum
C26_Witness ==
  /\ reply.op = "cleanupStaleSessions" /\ reply.max = 1
  /\ reply.deleted # {}
  /\ \E s \in SessionIds :
       Exists(s) /\ reply.at - sessions[s].lastActivity = reply.max

\* C27: after any sequence of registry operations, updateSession with
\* arbitrary partial fields included, the record stored under key k has
\* sessionId = k.
C27_SessionIdIsKey ==
  \A k \in SessionIds : Exists(k) => sessions[k].sessionId = k

\* C28: for a manifest that holds only dependencies {next} (no scripts) in a
\* sandbox without lock files, detectBuildConfig returns framework "Next.js",
\* packageManager "npm", devCommand "npm run dev" and defaultPort 3000.
C28_NextManifestScenario ==
  (/\ detection.called
   /\ detection.read = [fault |-> "none", dependencies |-> {"next"},
                        scripts |-> NoScripts]
   /\ detection.probe = [pnpm |-> "exit1", yarn |-> "exit1"]) =>
    /\ detection.config.framework = "Next.js"
    /\ detection.config.packageManager = "npm"
    /\ detection.config.devCommand = <<"npm", "run", "dev">>
    /\ detection.config.defaultPort = 3000

\* a lock-file probe threw: pnpm, or yarn after pnpm-lock.yaml was not found
ProbeFailed ==
  \/ detection.probe.pnpm = "throws"
  \/ detection.probe.pnpm = "exit1" /\ detection.probe.yarn = "throws"

\* C29: detectBuildConfig never propagates an error: when reading or parsing
\* the manifest fails it returns the default configuration (Unknown, npm,
\* 'npm install', 'npm run dev', 3000, no build command), and when a lock-file
\* probe fails the package manager is npm.
C29_DetectorDegrades ==
  /\ detection.outcome = "returned"
  /\ (detection.called /\ detection.read.fault # "none") =>
       detection.config =
         [framework |-> "Unknown", packageManager |-> "npm",
          installCommand |-> <<"npm", "install">>, buildCommand |-> NoScript,
          devCommand |-> <<"npm", "run", "dev">>, defaultPort |-> 3000]
  /\ (detection.called /\ detection.read.fault = "none" /\ ProbeFailed) =>
       /\ detection.config.packageManager = "npm"
       /\ detection.config.installCommand = <<"npm", "install">>
       /\ detection.config.framework = detectFramework(detection.read.dependencies)

\* the yarn probe threw on a readable Vite manifest with a build script
C29_Witness ==
  /\ detection.called /\ detection.read.fault = "none"
  /\ detection.probe = [pnpm |-> "exit1", yarn |-> "throws"]
  /\ detection.read.dependencies = {"vite"}
  /\ detection.config.framework = "Vite"
  /\ detection.config.packageManager = "npm"
  /\ detection.config.buildCommand = <<"npm", "run", "build">>

\* C30: when the script chosen as dev command (dev, start, serve or preview,
\* in that priority) contains an explicit --port N, defaultPort = N.
C30_PortOfChosenScript ==
  (/\ detection.called
   /\ detection.read.fault = "none"
   /\ detection.read.scripts # NoScripts
   /\ Len(detection.config.devCommand) = 3) =>
    LET name == detection.config.devCommand[3]
        scripts == detection.read.scripts
    IN  (/\ name \in {"dev", "start", "serve", "preview"}
         /\ scripts[name] # NoScript
         /\ portMatch(scripts[name]) # NoPort) =>
          detection.config.defaultPort = portMatch(scripts[name])

\* C39: after cleanupOrphanedContainers returns, the handle cache holds no
\* entry for a container the reaper removed, so that a later execCommand,
\* readFile or writeFile for it fails with the not-found error.
C39_ReaperEvictsHandles ==
  reply.op = "cleanupOrphanedContainers" =>
    \A c \in reply.listed : runtime[c] = "removed" => c \notin containerCache

\* C32: in the stale-session cleanup endpoint, for every stale session whose
\* picker was injected, cleanupInjection is run for it before destroyContainer
\* is called for it.
C32_CleanupBeforeDestroy ==
  \A e \in staleLog : (e.injected /\ e.id \in destroyInvoked) => e.cleaned

\* C38: no repoSetup is allocated a host port that is bound by a container
\* that has not been destroyed.
C38_AllocatedPortIsUnbound ==
  [][\A s \in SessionIds :
       (setup[s].pc = "start" /\ setup'[s].pc = "create") =>
         setup'[s].hostPort \notin BoundPorts(s)]_vars

\* C37: once a session was removed while its repoSetup is running, no later
\* step of that setup re-creates its registry record or its cached handle,
\* and the setup ends with success = false or with the registry still
\* without the session.
C37_RemovedStaysRemoved ==
  [][\A s \in SessionIds :
       (setup[s].pc \notin {"start", "create"}) =>
         /\ (~Exists(s)) => sessions'[s] = NoSession
         /\ (s \notin containerCache) => s \notin containerCache'
         /\ (~Exists(s) /\ setup[s].pc # "done" /\ setup'[s].pc = "done") =>
              (~result'[s].success \/ sessions'[s] = NoSession)]_vars

\* the DELETE cleanup removed the record and the handle of a setup before its
\* detection step, which has since acted: the install command found no handle
C37_Witness ==
  \E s \in SessionIds :
    /\ setup[s].pc = "install" /\ ~setup[s].issued
    /\ ~Exists(s)
    /\ s \notin containerCache
    /\ runtime[s] = "removed"

\* the calls whose create is less than five minutes old
Recent == {r \in Runs : run[r].pc # "start" /\ minute < run[r].createdAt + Ttl}

\* C35: an execution created by create(id) stays in the store, with its
\* messages and subscribers, until five minutes after that create call, also
\* when create was called before with the same id.
C35_KeptForFiveMinutes ==
  \A r \in Recent :
    /\ exists(executions, run[r].executionId)
    /\ executions[run[r].executionId].owner = r

\* the calls whose execution is in the store and less than five minutes old
Stored == {r \in Recent : /\ exists(executions, run[r].executionId)
                          /\ executions[run[r].executionId].owner = r}

\* C36: while an execution created with dedup key K is in the store,
\* getExecutionIdByInputHash(K) returns the id of an execution that is in the
\* store and was created with K.
C36_DedupKeyResolves ==
  \A r \in Stored :
    LET id == getExecutionIdByInputHash(inputHashToExecutionId, run[r].inputHash)
    IN  /\ id # NoId
        /\ exists(executions, id)
        /\ run[executions[id].owner].inputHash = run[r].inputHash

\* C40: every subscriber attached to the progress execution of an
\* experimentCodeUpdate call that does not unsubscribe eventually receives a
\* completion message, also when the run lasts longer than five minutes.
C40_SubscriberGetsCompletion ==
  \A c \in Callbacks :
    (stream[c].state = "open" /\ stream[c].owner \in SlowRuns)
      ~> \/ stream[c].state # "open"
         \/ \E i \in DOMAIN stream[c].received : stream[c].received[i] \in Terminal

\* C31: experimentCodeUpdate invoked without a sessionId creates its own
\* container and destroys it before it returns or throws, on every path;
\* invoked with a sessionId it neither creates nor destroys a container, so
\* the session's handle is still cached when the tool ends.
C31_ToolOwnsItsContainer ==
  reply.op = "experimentCodeUpdate" =>
    IF reply.provided
    THEN containerCache = reply.cache
    ELSE runtime[reply.id] \in {"absent", "removed"} /\ reply.id \notin containerCache

\* the half of C31 for a provided sessionId
C31_ProvidedContainerIsKept ==
  (reply.op = "experimentCodeUpdate" /\ reply.provided) =>
    containerCache = reply.cache

\* the files listed by the manifest of a container
Tracked(sb) ==
  IF sb.manifest \in {NoFile, Unparsable} THEN {}
  ELSE {sb.manifest.files[i] : i \in 1..Len(sb.manifest.files)}

\* C34: after an injectPicker call that met no helper failure, every backup
\* sibling the call wrote belongs to a file the call modified and the
\* manifest lists; no backup is left for a candidate that was read but not
\* modified.
C34_BackupsAreTracked ==
  (trail.ops # << >> /\ trail.ops[Len(trail.ops)].op = "inject"
     /\ trail.ops[Len(trail.ops)].faults = {}) =>
    LET last == trail.ops[Len(trail.ops)]
    IN \A p \in EntryPaths :
         sandbox.backup[p] # last.before.backup[p] =>
           /\ \E i \in 1..Len(last.files) : last.files[i] = p
           /\ p \in Tracked(sandbox)

\* C33: after two consecutive injectPicker calls followed by one
\* cleanupInjection, none meeting a helper failure, the entry point the first
\* call modified (valid UTF-8) has its original content and no backup
\* sibling: the manifest the rollback read still listed that file.
C33_RepeatedInjectThenCleanupRestores ==
  (/\ Len(trail.ops) = 3
   /\ trail.ops[3].op = "cleanup"
   /\ trail.ops[1].files # << >>
   /\ trail.original.repo[trail.ops[1].files[1]].bytes = "utf8") =>
    LET p == trail.ops[1].files[1]
    IN /\ p \in Tracked(trail.ops[3].before)
       /\ sandbox.repo[p] = trail.original.repo[p]
       /\ sandbox.backup[p] = NoFile

\* the same after one injectPicker call
C33_SingleInjectThenCleanupRestores ==
  (/\ CleanPair("inject", "cleanup")
   /\ trail.ops[1].files # << >>
   /\ trail.original.repo[trail.ops[1].files[1]].bytes = "utf8") =>
    LET p == trail.ops[1].files[1]
    IN /\ p \in Tracked(trail.ops[2].before)
       /\ sandbox.repo[p] = trail.original.repo[p]
       /\ sandbox.backup[p] = NoFile

====
